---------------------------- MODULE Spec2Model ----------------------------
(***************************************************************************)
(* A model of the travel-agent repository: the trace formatter             *)
(* (agent/tracer.py), the single-agent tool functions and facade           *)
(* (agent/agent.py), the specialized agents' tools (agent/multi_agent.py)  *)
(* and the coordinator's delegation operations and facade                  *)
(* (agent/coordinator.py).                                                 *)
(*                                                                         *)
(* Python values are modelled as follows: a dict is a record, a list is a  *)
(* sequence, an f-string is the tuple of its literal text and its          *)
(* interpolated values, a raised exception is a record naming its class.   *)
(***************************************************************************)
EXTENDS Integers, Sequences, FiniteSets, TLC

VARIABLES
    \* ---- agent/tracer.py: one call of covert_to_trace ----
    messages,   \* the argument: a sequence of turns, each a sequence of parts
    tr_pc,      \* position in covert_to_trace
    tr_i,       \* enumerate index of the outer loop
    tr_j,       \* number of parts of the current turn already converted
    span,       \* the span under construction
    spans,      \* the local list of finished spans
    tr_ret,     \* what the caller receives
    \* ---- agent/agent.py, agent/tools.py: one invocation of a tool function ----
    call,       \* the invocation: the tool, its arguments and what the
                \* external provider will answer to its request
    tool_ret,   \* how the invocation ended: the value returned or the
                \* exception raised, with the outbound requests it made
    \* ---- agent/multi_agent.py: one invocation of a specialized agent's tool ----
    sa_call,    \* the tool, its arguments and what each provider will answer
    sa_ret,     \* how the invocation ended
    \* ---- agent/coordinator.py: one delegation operation of the coordinator ----
    d_call,     \* the operation, its arguments and its RunContext
    d_pc,       \* "start", "awaiting" the specialized agent, "resumed", "done"
    d_log,      \* the specialized-agent runs started: agent, prompt, deps
    d_run,      \* how the awaited run of the specialized agent ended
    d_ret,      \* how the operation ended: the record returned or the exception
    \* ---- the top-level facade: one process serving one query ----
    f_env,      \* the credentials present in os.environ
    f_req,      \* whether the caller asks for multi-agent mode
    f_pc,       \* "start", "new", "ready", "running", "ended", "done",
                \* or "import_failed"
    f_mode,     \* the mode the constructed facade is in
    f_info,     \* what get_agent_info returned, once called
    f_engine,   \* how run_sync of the agent or of the coordinator ended
    f_ret,      \* how run(query) ended: the pair returned or the exception
    \* ---- agent/coordinator.py: one run of the coordinator ----
    co_arg,     \* the dependencies argument of MultiAgentTravelAgent(...)
    co_self,    \* the MultiAgentTravelAgent object
    co_ctx,     \* the RunContext of the coordinator's run
    co_pc,      \* "new", "ready", "running", "done" or "failed"
    co_events,  \* the delegation operations invoked and returned, in order
    co_pending, \* the positions in co_events of the invocations not yet returned
    co_out,     \* the output of the run
    \* ---- agent/coordinator.py: one call of _format_section ----
    fs_data,    \* the argument
    fs_out,     \* the text returned, or the exception raised
    \* ---- run_agent.py: one invocation of the process entry point ----
    m_env,      \* the credentials in the environment of the process
    m_args,     \* the parsed command line
    m_pc,       \* position in the script
    m_stdout,   \* what has been printed
    m_exit,     \* how the process ended
    \* ---- several runs on one facade object ----
    mr_new,     \* the facade as it was constructed
    mr_self,    \* the facade object the runs are called on
    mr_pc,      \* position of each run
    mr_engine,  \* how the completion engine's run ended, per run
    mr_ret,     \* what each run returned
    \* ---- one run of an agent: the requests to the completion engine ----
    rt_agent,   \* the agent that is run
    rt_pc,      \* position in the run
    rt_retries, \* the retries made after an output that did not validate
    rt_requests, \* the requests made to the completion engine
    rt_ret,     \* what the caller of the facade receives
    \* ---- agent/tracer.py: several calls of covert_to_trace ----
    ct_args,    \* the argument of each call, as the caller holds it
    ct_state,   \* what the module keeps between calls
    ct_n,       \* the number of calls made
    ct_rets,    \* what each call returned or raised
    \* ---- agent/coordinator.py: the plan of a run rendered several times ----
    rp_plan,    \* the fields of the plan of a completed run
    rp_reports  \* the reports rendered from it so far

traceVars == <<messages, tr_pc, tr_i, tr_j, span, spans, tr_ret>>
toolVars == <<call, tool_ret>>
saVars == <<sa_call, sa_ret>>
delegVars == <<d_call, d_pc, d_log, d_run, d_ret>>

facadeVars == <<f_env, f_req, f_pc, f_mode, f_info, f_engine, f_ret>>

coordVars == <<co_arg, co_self, co_ctx, co_pc, co_events, co_pending, co_out>>

sectionVars == <<fs_data, fs_out>>

mainVars == <<m_env, m_args, m_pc, m_stdout, m_exit>>

runsVars == <<mr_new, mr_self, mr_pc, mr_engine, mr_ret>>

loopVars == <<rt_agent, rt_pc, rt_retries, rt_requests, rt_ret>>

callsVars == <<ct_args, ct_state, ct_n, ct_rets>>

renderVars == <<rp_plan, rp_reports>>

vars == <<traceVars, toolVars, saVars, delegVars, facadeVars, coordVars, sectionVars,
          mainVars,
    runsVars,
    loopVars,
    callsVars,
    renderVars>>

\* what a step of one component leaves alone: the other components
OnlyTrace == UNCHANGED <<toolVars, saVars, delegVars, facadeVars, coordVars, sectionVars,
    mainVars,
    runsVars,
    loopVars,
    callsVars,
    renderVars>>
OnlyTools == UNCHANGED <<traceVars, saVars, delegVars, facadeVars, coordVars, sectionVars,
    mainVars,
    runsVars,
    loopVars,
    callsVars,
    renderVars>>
OnlySa == UNCHANGED <<traceVars, toolVars, delegVars, facadeVars, coordVars, sectionVars,
    mainVars,
    runsVars,
    loopVars,
    callsVars,
    renderVars>>
OnlyDeleg == UNCHANGED <<traceVars, toolVars, saVars, facadeVars, coordVars, sectionVars,
    mainVars,
    runsVars,
    loopVars,
    callsVars,
    renderVars>>
OnlyFacade == UNCHANGED <<traceVars, toolVars, saVars, delegVars, coordVars, sectionVars,
    mainVars,
    runsVars,
    loopVars,
    callsVars,
    renderVars>>
OnlyCoord == UNCHANGED <<traceVars, toolVars, saVars, delegVars, facadeVars, sectionVars,
    mainVars,
    runsVars,
    loopVars,
    callsVars,
    renderVars>>
OnlyMain == UNCHANGED <<traceVars, toolVars, saVars, delegVars, facadeVars, coordVars,
    sectionVars,
    runsVars,
    loopVars,
    callsVars,
    renderVars>>
OnlySection == UNCHANGED <<traceVars, toolVars, saVars, delegVars, facadeVars, coordVars,
    mainVars,
    runsVars,
    loopVars,
    callsVars,
    renderVars>>
OnlyRuns == UNCHANGED <<traceVars, toolVars, saVars, delegVars, facadeVars, coordVars,
    sectionVars, mainVars,
    loopVars,
    callsVars,
    renderVars>>
OnlyLoop == UNCHANGED <<traceVars, toolVars, saVars, delegVars, facadeVars, coordVars,
    sectionVars, mainVars, runsVars,
    callsVars,
    renderVars>>
OnlyCalls == UNCHANGED <<traceVars, toolVars, saVars, delegVars, facadeVars, coordVars,
    sectionVars, mainVars, runsVars, loopVars,
    renderVars>>
OnlyRender == UNCHANGED <<traceVars, toolVars, saVars, delegVars, facadeVars, coordVars,
    sectionVars, mainVars, runsVars, loopVars, callsVars>>

(***************************************************************************)
(* Bounds of the model.                                                    *)
(***************************************************************************)
\* the longest conversation (number of turns) fed to the trace formatter
MaxTurns == 2
\* the largest number of message parts in one conversation
MaxParts == 2
\* the longest location string (in characters) passed to find_places
MaxLocLen == 3
\* the largest number of delegation operations in one run of the coordinator
MaxDelegations == 2
\* the longest list of raw records in the data given to _format_section
MaxRecords == 4
MaxRuns == 2
MaxRequests == 3
MaxCalls == 3
MaxRenders == 2

(***************************************************************************)
(* agent/tracer.py                                                         *)
(***************************************************************************)
\* The message-part classes convert_to_json tests for, in the order tested.
RecognizedParts ==
    {"SystemPromptPart", "ToolCallPart", "TextPart", "UserPromptPart",
     "ToolReturnPart"}

\* A part class of pydantic_ai.messages that convert_to_json has no branch for.
UnknownParts == {"RetryPromptPart"}

\* One message part of each class, with the attributes convert_to_json reads.
AllParts ==
    { [cls |-> "SystemPromptPart", content |-> "sys"],
      [cls |-> "ToolCallPart", tool_name |-> "find_places", args |-> "q=cafe"],
      [cls |-> "TextPart", content |-> "txt"],
      [cls |-> "UserPromptPart", content |-> "usr"],
      [cls |-> "ToolReturnPart", tool_name |-> "search_web", content |-> "ret"],
      [cls |-> "RetryPromptPart", content |-> "retry"] }

\* Sequences over S of length at most n.
SeqUpTo(S, n) == UNION { [1..k -> S] : k \in 0..n }

\* The number of parts in the first k turns of a conversation whose turns
\* have the lengths ls.
RECURSIVE PartsBefore(_, _)
PartsBefore(ls, k) == IF k = 0 THEN 0 ELSE ls[k] + PartsBefore(ls, k - 1)

\* The lengths of the turns of a conversation: at most MaxTurns turns
\* holding at most MaxParts parts in all; a turn may have no part.
Shapes ==
    UNION { { ls \in [1..n -> 0..MaxParts] : PartsBefore(ls, n) <= MaxParts } :
            n \in 0..MaxTurns }

\* The conversation whose turns have the lengths ls and whose parts are,
\* in order, those of flat (a turn is the sequence model_request.parts).
Turns(flat, ls) ==
    [k \in 1..Len(ls) |->
        SubSeq(flat, PartsBefore(ls, k - 1) + 1, PartsBefore(ls, k))]

\* The conversations of the model: every shape filled with every choice
\* of parts.
Conversations ==
    UNION { { Turns(flat, ls) : flat \in [1..PartsBefore(ls, Len(ls)) -> AllParts] } :
            ls \in Shapes }

\* a variant whose TextPart branch uses the tag of the user's input
JsonTextAsUserInput(message) ==
    CASE message.cls = "SystemPromptPart" ->
           [system_prompt |-> [role |-> "system", content |-> message.content]]
      [] message.cls = "ToolCallPart" ->
           [tool_call |-> [role |-> "tool", name |-> message.tool_name,
                           arguments |-> message.args]]
      [] message.cls \in {"TextPart", "UserPromptPart"} ->
           [user_input |-> [role |-> "user", content |-> message.content]]
      [] message.cls = "ToolReturnPart" ->
           [tool_return |-> [role |-> "tool", name |-> message.tool_name,
                             content |-> message.content]]

\* lines 4-22: the tagged record of a part of one of the five recognized classes.
RecognizedJson(message) ==
    CASE message.cls = "SystemPromptPart" ->
           [system_prompt |-> [role |-> "system", content |-> message.content]]
      [] message.cls = "ToolCallPart" ->
           [tool_call |-> [role |-> "tool", name |-> message.tool_name,
                           arguments |-> message.args]]
      [] message.cls = "TextPart" ->
           [text |-> [role |-> "user", content |-> message.content]]
      [] message.cls = "UserPromptPart" ->
           [user_input |-> [role |-> "user", content |-> message.content]]
      [] message.cls = "ToolReturnPart" ->
           [tool_return |-> [role |-> "tool", name |-> message.tool_name,
                             content |-> message.content]]

\* convert_to_json without its else branch: an unknown part falls through
\* and the function returns None, which the caller appends to the span.
ConvertUnknownAsNone(message) ==
    IF message.cls \in RecognizedParts
    THEN [raised |-> FALSE, value |-> RecognizedJson(message)]
    ELSE [raised |-> FALSE, value |-> [none |-> TRUE]]

\* convert_to_json(message): the tagged record of a recognized part, or
\* ValueError for any other part (lines 23-24).
convert_to_json(message) ==
    IF message.cls \in RecognizedParts
    THEN [raised |-> FALSE, value |-> RecognizedJson(message)]
    ELSE [raised |-> TRUE,
          exc |-> [cls |-> "ValueError",
                   msg |-> <<"Unknown message type: ", message.cls>>]]

NoReturn == [kind |-> "none"]

TraceInit ==
    /\ messages \in Conversations
    /\ tr_pc = "start"
    /\ tr_i = 0
    /\ tr_j = 0
    /\ span = <<>>
    /\ spans = <<>>
    /\ tr_ret = NoReturn

\* line 27: spans = []
TraceStart ==
    /\ tr_pc = "start"
    /\ spans' = <<>>
    /\ tr_i' = 0
    /\ tr_pc' = "for_turn"
    /\ UNCHANGED <<messages, tr_j, span, tr_ret>>
    /\ OnlyTrace

\* The span a turn opens with (line 29), as a buggy variant numbering from 1.
NewSpanOneBased(i) == [span_id |-> i + 1, messages |-> <<>>]

\* line 29: span = {"span_id": i, "messages": []}
NewSpan(i) == [span_id |-> i, messages |-> <<>>]

\* lines 28-29: the outer loop takes the next turn and opens its span
TraceNextTurn ==
    /\ tr_pc = "for_turn"
    /\ tr_i < Len(messages)
    /\ span' = NewSpan(tr_i)
    /\ tr_j' = 0
    /\ tr_pc' = "for_part"
    /\ UNCHANGED <<messages, tr_i, spans, tr_ret>>
    /\ OnlyTrace

\* lines 30-31: one part of the turn is converted and appended to the span
TraceConvertPart ==
    /\ tr_pc = "for_part"
    /\ tr_j < Len(messages[tr_i + 1])
    /\ LET r == convert_to_json(messages[tr_i + 1][tr_j + 1]) IN
        /\ ~r.raised
        /\ span' = [span EXCEPT !.messages = Append(@, r.value)]
    /\ tr_j' = tr_j + 1
    /\ UNCHANGED <<messages, tr_pc, tr_i, spans, tr_ret>>
    /\ OnlyTrace

\* line 24 reached from line 31: ValueError leaves covert_to_trace, which
\* has no handler; the local spans are lost with the frame
TraceConvertRaises ==
    /\ tr_pc = "for_part"
    /\ tr_j < Len(messages[tr_i + 1])
    /\ LET r == convert_to_json(messages[tr_i + 1][tr_j + 1]) IN
        /\ r.raised
        /\ tr_ret' = [kind |-> "raised", exc |-> r.exc]
    /\ tr_pc' = "done"
    /\ UNCHANGED <<messages, tr_i, tr_j, span, spans>>
    /\ OnlyTrace

\* line 32: spans.append(span), and the loop index advances
TraceAppendSpan ==
    /\ tr_pc = "for_part"
    /\ tr_j = Len(messages[tr_i + 1])
    /\ spans' = Append(spans, span)
    /\ tr_i' = tr_i + 1
    /\ tr_pc' = "for_turn"
    /\ UNCHANGED <<messages, tr_j, span, tr_ret>>
    /\ OnlyTrace

\* line 34: return spans
TraceReturn ==
    /\ tr_pc = "for_turn"
    /\ tr_i = Len(messages)
    /\ tr_ret' = [kind |-> "returned", spans |-> spans]
    /\ tr_pc' = "done"
    /\ UNCHANGED <<messages, tr_i, tr_j, span, spans>>
    /\ OnlyTrace


(***************************************************************************)
(* Python and library semantics shared by the tool functions               *)
(***************************************************************************)
\* The classes an exception of each class is an instance of (its own class
\* and its bases), for the exceptions the providers' client libraries and
\* the parsing built-ins raise. Response.json() raises
\* requests.exceptions.JSONDecodeError (a RequestException) from requests
\* 2.27 on and the json module's JSONDecodeError (a plain ValueError) before;
\* setup.py pins no version of requests.
Bases(cls) ==
    CASE cls = "googlemaps.ApiError" -> {cls, "Exception"}
      [] cls = "googlemaps.TransportError" -> {cls, "Exception"}
      [] cls = "googlemaps.Timeout" -> {cls, "Exception"}
      [] cls = "requests.ConnectionError" -> {cls, "requests.RequestException", "Exception"}
      [] cls = "requests.Timeout" -> {cls, "requests.RequestException", "Exception"}
      [] cls = "requests.HTTPError" -> {cls, "requests.RequestException", "Exception"}
      [] cls = "requests.JSONDecodeError" ->
           {cls, "requests.RequestException", "json.JSONDecodeError", "ValueError", "Exception"}
      [] cls = "json.JSONDecodeError" -> {cls, "ValueError", "Exception"}
      [] cls = "ValueError" -> {cls, "Exception"}
      [] cls = "SearchError" -> {cls, "Exception"}
      [] cls = "tavily.UsageLimitExceededError" -> {cls, "Exception"}
      [] cls = "IndexError" -> {cls, "LookupError", "Exception"}
      [] cls = "pydantic_ai.UnexpectedModelBehavior" -> {cls, "Exception"}
      [] cls = "pydantic_ai.UsageLimitExceeded" -> {cls, "Exception"}
      [] cls = "pydantic_ai.ModelHTTPError" -> {cls, "Exception"}
      [] cls = "AttributeError" -> {cls, "Exception"}
      [] cls = "TypeError" -> {cls, "Exception"}
      [] cls = "KeyError" -> {cls, "LookupError", "Exception"}
      [] cls = "pydantic_core.PydanticSerializationError" -> {cls, "ValueError", "Exception"}

\* except <handler> as e: whether the clause catches exception exc
Catches(handler, exc) == handler \in Bases(exc.cls)

\* an exception object; str(e) is its message
Exc(cls, msg) == [cls |-> cls, msg |-> msg]

\* what a call into a client library does: return a value or raise
Ok(v) == [kind |-> "ok", value |-> v]
Raise(cls) == [kind |-> "raise", exc |-> Exc(cls, <<"message of", cls>>)]

\* how a tool invocation ends, with the outbound requests it made
Returned(v, reqs) == [kind |-> "returned", value |-> v, requests |-> reqs]
Raised(e, reqs) == [kind |-> "raised", exc |-> e, requests |-> reqs]

\* the googlemaps client's failures
GmapsFailures ==
    { Raise(c) : c \in {"googlemaps.ApiError", "googlemaps.TransportError",
                        "googlemaps.Timeout"} }

\* what gmaps.geocode / reverse_geocode / directions answer: a list of results
GmapsLists ==
    { Ok(<<>>),
      Ok(<< [formatted_address |-> "Paris",
             geometry |-> [location |-> [lat |-> 48, lng |-> 2]]] >>) }
    \cup GmapsFailures

\* what gmaps.places answers: a mapping, with or without the key 'results'
GmapsPlaces ==
    { Ok([status |-> "ZERO_RESULTS"]),
      Ok([status |-> "OK", results |-> << [name |-> "Cafe", rating |-> 4] >>]) }
    \cup GmapsFailures

\* what gmaps.addressvalidation answers
GmapsValidations == { Ok([result |-> [verdict |-> "CONFIRMED"]]) } \cup GmapsFailures

\* what search_client.results answers
SearchResults ==
    { Ok(<<>>), Ok(<< [title |-> "t", link |-> "l", snippet |-> "s"] >>),
      Raise("SearchError") }

HTTP_OK == 200

\* the status codes of the model's HTTP responses
StatusCodes == {HTTP_OK, 204, 403, 500}

\* what Response.json() does: the parsed body, or a decoding error of the
\* class the installed requests raises
JsonBodies ==
    { Ok([temperature |-> 21]), Ok([error |-> "quota"]),
      Raise("requests.JSONDecodeError"), Raise("json.JSONDecodeError") }

\* what requests.get does: a response, or a transport failure
HttpAnswers ==
    { Ok([status_code |-> s, json |-> b]) : s \in StatusCodes, b \in JsonBodies }
    \cup { Raise(c) : c \in {"requests.ConnectionError", "requests.Timeout"} }

\* the dict {} (a function with no keys)
EmptyDict == <<>>

\* an outbound request, as logged in the invocation's requests
Req(api, params) == [api |-> api, params |-> params]

(***************************************************************************)
(* agent/agent.py: the single agent's tool functions. Each is a function   *)
(* of its arguments and of the provider's answer p to its request.         *)
(***************************************************************************)
\* lines 39-42
geocode_address(address, p) ==
    LET reqs == << Req("gmaps.geocode", <<address>>) >> IN
    IF p.kind = "ok" THEN Returned(p.value, reqs)
    ELSE IF Catches("Exception", p.exc)
         THEN Returned(<< [error |-> <<"Geocoding failed: ", p.exc.msg>>] >>, reqs)
         ELSE Raised(p.exc, reqs)

\* lines 56-59
reverse_geocode_coordinates(latitude, longitude, p) ==
    LET reqs == << Req("gmaps.reverse_geocode", <<latitude, longitude>>) >> IN
    IF p.kind = "ok" THEN Returned(p.value, reqs)
    ELSE IF Catches("Exception", p.exc)
         THEN Returned(<< [error |-> <<"Reverse geocoding failed: ", p.exc.msg>>] >>, reqs)
         ELSE Raised(p.exc, reqs)

\* lines 74-77
get_directions(origin, destination, mode, p) ==
    LET reqs == << Req("gmaps.directions", <<origin, destination, mode>>) >> IN
    IF p.kind = "ok" THEN Returned(p.value, reqs)
    ELSE IF Catches("Exception", p.exc)
         THEN Returned(<< [error |-> <<"Directions failed: ", p.exc.msg>>] >>, reqs)
         ELSE Raised(p.exc, reqs)

\* lines 99-104 of get_current_weather and 130-135 of get_weather_forecast:
\* the body of the try block once requests.get has answered with response r;
\* the result is a value to return or an exception for the handler
WeatherAnySuccessStatus(r) ==
    IF r.status_code \div 100 = 2
    THEN r.json
    ELSE Ok([error |-> <<"Weather API error: ", r.status_code>>])

WeatherResponse(r) ==
    IF r.status_code = HTTP_OK
    THEN r.json
    ELSE Ok([error |-> <<"Weather API error: ", r.status_code>>])

\* lines 91-106
get_current_weather(latitude, longitude, p) ==
    LET reqs == << Req("GET currentConditions:lookup", <<latitude, longitude>>) >>
        body == IF p.kind = "ok" THEN WeatherResponse(p.value) ELSE p
    IN  IF body.kind = "ok" THEN Returned(body.value, reqs)
        ELSE IF Catches("Exception", body.exc)
             THEN Returned([error |-> <<"Weather request failed: ", body.exc.msg>>], reqs)
             ELSE Raised(body.exc, reqs)

\* lines 121-137
get_weather_forecast(latitude, longitude, days, p) ==
    LET reqs == << Req("GET forecast/days:lookup", <<latitude, longitude, days>>) >>
        body == IF p.kind = "ok" THEN WeatherResponse(p.value) ELSE p
    IN  IF body.kind = "ok" THEN Returned(body.value, reqs)
        ELSE IF Catches("Exception", body.exc)
             THEN Returned([error |-> <<"Weather forecast failed: ", body.exc.msg>>], reqs)
             ELSE Raised(body.exc, reqs)

\* Response.raise_for_status(): HTTPError for a 4xx or 5xx status
raise_for_status(r) ==
    IF r.status_code >= 400 /\ r.status_code < 600
    THEN Raise("requests.HTTPError")
    ELSE Ok(r)

\* lines 147-152: the handler is for requests.RequestException only
get_current_location(p) ==
    LET reqs == << Req("GET ipinfo.io/json", <<>>) >>
        checked == IF p.kind = "ok" THEN raise_for_status(p.value) ELSE p
        body == IF checked.kind = "ok" THEN checked.value.json ELSE checked
    IN  IF body.kind = "ok" THEN Returned(body.value, reqs)
        ELSE IF Catches("requests.RequestException", body.exc)
             THEN Returned([error |-> <<"Could not get current location: ", body.exc.msg>>], reqs)
             ELSE Raised(body.exc, reqs)

\* lines 176-179
search_web(query, num_results, p) ==
    LET reqs == << Req("search_client.results", <<query, num_results>>) >> IN
    IF p.kind = "ok" THEN Returned(p.value, reqs)
    ELSE IF Catches("Exception", p.exc)
         THEN Returned(<< [error |-> <<"Web search failed: ", p.exc.msg>>] >>, reqs)
         ELSE Raised(p.exc, reqs)

\* lines 193-196
validate_address(addresses, region_code, p) ==
    LET reqs == << Req("gmaps.addressvalidation", <<addresses, region_code>>) >> IN
    IF p.kind = "ok" THEN Returned(p.value, reqs)
    ELSE IF Catches("Exception", p.exc)
         THEN Returned([error |-> <<"Address validation error: ", p.exc.msg>>], reqs)
         ELSE Raised(p.exc, reqs)

\* The characters of the model's location strings: digits, the separator
\* and a character that is neither.
LocChars == {"4", "8", ",", "x"}

\* A string is the sequence of its characters; an Optional[str] argument is
\* <<>> for None and <<s>> for the string s.
LocStrings == SeqUpTo(LocChars, MaxLocLen)
Locations == {<<>>} \cup { <<str>> : str \in LocStrings }

\* Python truth value of an Optional[str]: None and "" are false
Truthy(location) == location # <<>> /\ location[1] # <<>>

\* str.split(","): the fields between the separators, at least one
RECURSIVE SplitComma(_)
SplitComma(str) ==
    IF \A k \in 1..Len(str) : str[k] # ","
    THEN << str >>
    ELSE LET k == CHOOSE i \in 1..Len(str) :
                     str[i] = "," /\ \A j \in 1..(i - 1) : str[j] # ","
         IN  << SubSeq(str, 1, k - 1) >> \o SplitComma(SubSeq(str, k + 1, Len(str)))

DigitValue(c) == IF c = "4" THEN 4 ELSE 8

\* float(field) over LocChars: a non-empty run of digits converts to its
\* value, anything else is ValueError
RECURSIVE DigitsValue(_)
DigitsValue(f) ==
    IF f = <<>> THEN 0
    ELSE 10 * DigitsValue(SubSeq(f, 1, Len(f) - 1)) + DigitValue(f[Len(f)])

IsFloat(f) == f # <<>> /\ \A k \in 1..Len(f) : f[k] \in {"4", "8"}

NotAFloat == Raise("ValueError")

\* lat, lng = map(float, location.split(",")): the lazy map is consumed by
\* the unpacking, which converts a third field, if any, before it reports
\* too many values. Every failure is ValueError.
ParseLatLng(str) ==
    LET f == SplitComma(str) IN
    IF ~IsFloat(f[1]) THEN NotAFloat
    ELSE IF Len(f) = 1
    THEN [kind |-> "raise", exc |-> Exc("ValueError", "not enough values to unpack")]
    ELSE IF ~IsFloat(f[2]) THEN NotAFloat
    ELSE IF Len(f) > 2
    THEN IF ~IsFloat(f[3]) THEN NotAFloat
         ELSE [kind |-> "raise", exc |-> Exc("ValueError", "too many values to unpack")]
    ELSE Ok(<<DigitsValue(f[1]), DigitsValue(f[2])>>)

\* dict.get('results', [])
GetResults(d) == IF "results" \in DOMAIN d THEN d.results ELSE <<>>

\* agent.py lines 212-216 and tools.py lines 40-44: the places search as
\* both revisions write it; p is what gmaps.places answers if it is called.
\* The result is the value to return or the exception raised, with the
\* requests made.
PlacesSearch(query, location, radius, p) ==
    IF Truthy(location)
    THEN LET ll == ParseLatLng(location[1]) IN
         IF ll.kind = "raise" THEN [out |-> ll, requests |-> <<>>]
         ELSE [out |-> IF p.kind = "ok" THEN Ok(GetResults(p.value)) ELSE p,
               requests |-> << Req("gmaps.places", <<query, ll.value, radius>>) >>]
    ELSE [out |-> IF p.kind = "ok" THEN Ok(GetResults(p.value)) ELSE p,
          requests |-> << Req("gmaps.places", <<query>>) >>]

\* agent.py lines 211-218: the parse is inside the try block
find_places(query, location, radius, p) ==
    LET b == PlacesSearch(query, location, radius, p) IN
    IF b.out.kind = "ok" THEN Returned(b.out.value, b.requests)
    ELSE IF Catches("Exception", b.out.exc)
         THEN Returned(<< [error |-> <<"Places search failed: ", b.out.exc.msg>>] >>,
                       b.requests)
         ELSE Raised(b.out.exc, b.requests)

\* tools.py lines 35-44: the revision find_places replaces has no handler
legacy_get_places(query, location, radius, p) ==
    LET b == PlacesSearch(query, location, radius, p) IN
    IF b.out.kind = "ok" THEN Returned(b.out.value, b.requests)
    ELSE Raised(b.out.exc, b.requests)

\* radius: int = 5000
DefaultRadius == 5000

(***************************************************************************)
(* One invocation of a tool function by the tool-invocation layer.         *)
(***************************************************************************)
ToolCalls ==
    [tool : {"geocode_address"}, address : {"Paris"}, p : GmapsLists]
    \cup [tool : {"reverse_geocode_coordinates"}, latitude : {48}, longitude : {2},
          p : GmapsLists]
    \cup [tool : {"get_directions"}, origin : {"Paris"}, destination : {"Lyon"},
          mode : {"driving", "transit"}, p : GmapsLists]
    \cup [tool : {"get_current_weather"}, latitude : {48}, longitude : {2},
          p : HttpAnswers]
    \cup [tool : {"get_weather_forecast"}, latitude : {48}, longitude : {2},
          days : {7}, p : HttpAnswers]
    \cup [tool : {"get_current_location"}, p : HttpAnswers]
    \cup [tool : {"search_web"}, query : {"louvre"}, num_results : {5},
          p : SearchResults]
    \cup [tool : {"validate_address"}, addresses : {<<"1 rue X">>},
          region_code : {"US"}, p : GmapsValidations]
    \cup [tool : {"find_places", "legacy_get_places"}, query : {"cafe"},
          location : Locations, radius : {DefaultRadius}, p : GmapsPlaces]

ToolInit ==
    /\ call \in ToolCalls
    /\ tool_ret = NoReturn

Call_geocode_address ==
    /\ call.tool = "geocode_address"
    /\ tool_ret = NoReturn
    /\ tool_ret' = geocode_address(call.address, call.p)
    /\ UNCHANGED call
    /\ OnlyTools

Call_reverse_geocode_coordinates ==
    /\ call.tool = "reverse_geocode_coordinates"
    /\ tool_ret = NoReturn
    /\ tool_ret' = reverse_geocode_coordinates(call.latitude, call.longitude, call.p)
    /\ UNCHANGED call
    /\ OnlyTools

Call_get_directions ==
    /\ call.tool = "get_directions"
    /\ tool_ret = NoReturn
    /\ tool_ret' = get_directions(call.origin, call.destination, call.mode, call.p)
    /\ UNCHANGED call
    /\ OnlyTools

Call_get_current_weather ==
    /\ call.tool = "get_current_weather"
    /\ tool_ret = NoReturn
    /\ tool_ret' = get_current_weather(call.latitude, call.longitude, call.p)
    /\ UNCHANGED call
    /\ OnlyTools

Call_get_weather_forecast ==
    /\ call.tool = "get_weather_forecast"
    /\ tool_ret = NoReturn
    /\ tool_ret' = get_weather_forecast(call.latitude, call.longitude, call.days, call.p)
    /\ UNCHANGED call
    /\ OnlyTools

Call_get_current_location ==
    /\ call.tool = "get_current_location"
    /\ tool_ret = NoReturn
    /\ tool_ret' = get_current_location(call.p)
    /\ UNCHANGED call
    /\ OnlyTools

Call_search_web ==
    /\ call.tool = "search_web"
    /\ tool_ret = NoReturn
    /\ tool_ret' = search_web(call.query, call.num_results, call.p)
    /\ UNCHANGED call
    /\ OnlyTools

Call_validate_address ==
    /\ call.tool = "validate_address"
    /\ tool_ret = NoReturn
    /\ tool_ret' = validate_address(call.addresses, call.region_code, call.p)
    /\ UNCHANGED call
    /\ OnlyTools

Call_find_places ==
    /\ call.tool = "find_places"
    /\ tool_ret = NoReturn
    /\ tool_ret' = find_places(call.query, call.location, call.radius, call.p)
    /\ UNCHANGED call
    /\ OnlyTools

Call_legacy_get_places ==
    /\ call.tool = "legacy_get_places"
    /\ tool_ret = NoReturn
    /\ tool_ret' = legacy_get_places(call.query, call.location, call.radius, call.p)
    /\ UNCHANGED call
    /\ OnlyTools

ToolNext ==
    \/ Call_geocode_address
    \/ Call_reverse_geocode_coordinates
    \/ Call_get_directions
    \/ Call_get_current_weather
    \/ Call_get_weather_forecast
    \/ Call_get_current_location
    \/ Call_search_web
    \/ Call_validate_address
    \/ Call_find_places
    \/ Call_legacy_get_places

(***************************************************************************)
(* agent/multi_agent.py: the specialized agents' tools. Each is a function *)
(* of its arguments and of env, which holds what each provider answers     *)
(* when the tool calls it: env.geocode, env.places, env.spots,             *)
(* env.directions (the googlemaps client of ctx.deps), env.search (the     *)
(* tavily client of ctx.deps), env.current and env.forecast (requests.get).*)
(***************************************************************************)
\* what tavily_client.search answers when it does not fail
TavilyAnswers ==
    { Ok([results |-> <<>>]),
      Ok([results |-> << [title |-> "t", url |-> "u"] >>]),
      Raise("tavily.UsageLimitExceededError") }

\* what gmaps.geocode answers
GeocodeAnswers ==
    { Ok(<<>>),
      Ok(<< [geometry |-> [location |-> [lat |-> 48, lng |-> 2]]] >>),
      Raise("googlemaps.TransportError") }

\* what gmaps.places answers
PlacesAnswers ==
    { Ok([status |-> "ZERO_RESULTS"]),
      Ok([results |-> << [name |-> "Ritz", rating |-> 5] >>]),
      Raise("googlemaps.ApiError") }

\* what gmaps.directions answers: no route, a route, a route without legs
DirectionsAnswers ==
    { Ok(<<>>),
      Ok(<< [legs |-> << [distance |-> [text |-> "465 km"],
                          duration |-> [text |-> "4 hours"]] >>] >>),
      Ok(<< [legs |-> <<>>] >>),
      Raise("googlemaps.Timeout") }

\* what requests.get answers to a weather request
WeatherAnswers ==
    { Ok([status_code |-> HTTP_OK, json |-> Ok([temperature |-> 21])]),
      Ok([status_code |-> HTTP_OK, json |-> Raise("requests.JSONDecodeError")]),
      Ok([status_code |-> 403, json |-> Ok([error |-> "denied"])]),
      Raise("requests.ConnectionError") }

HotelRadius == 5000
ActivityRadius == 8000
FlightMaxResults == 10
HotelMaxResults == 8
WeatherMaxResults == 5

\* geocode_results[0]['geometry']['location']
LatLng(geocode_results) ==
    << geocode_results[1].geometry.location.lat,
       geocode_results[1].geometry.location.lng >>

\* Python truth value of an Optional[str] whose string is kept whole
\* (not as characters): None and "" are false
Given(opt) == opt # <<>> /\ opt[1] # ""

\* an f-string's optional suffix: text when the Optional argument is truthy
Suffix(text, opt) == IF Given(opt) THEN <<text, opt[1]>> ELSE <<>>

\* lines 93-100: the driving reference; the bare except catches everything,
\* IndexError of a route without legs included
DrivingInfo(d) ==
    IF d.kind = "raise" THEN [driving_distance |-> "Unknown", driving_duration |-> "Unknown"]
    ELSE IF d.value = <<>> THEN [driving_distance |-> "Unknown", driving_duration |-> "Unknown"]
    ELSE IF d.value[1].legs = <<>>
    THEN [driving_distance |-> "Unknown", driving_duration |-> "Unknown"]
    ELSE [driving_distance |-> d.value[1].legs[1].distance.text,
          driving_duration |-> d.value[1].legs[1].duration.text]

\* lines 86-109
flight_search(origin, destination, departure_date, return_date, env) ==
    LET search_query == <<"flights from ", origin, " to ", destination, " ", departure_date>>
                            \o Suffix(" return ", return_date)
        r1 == << Req("tavily.search", <<search_query, FlightMaxResults>>) >>
        r2 == r1 \o << Req("gmaps.directions", <<origin, destination, "driving">>) >>
    IN  IF env.search.kind = "raise" THEN Raised(env.search.exc, r1)
        ELSE Returned([search_results |-> env.search.value,
                       driving_alternative |-> DrivingInfo(env.directions),
                       origin |-> origin,
                       destination |-> destination,
                       departure_date |-> departure_date,
                       return_date |-> return_date], r2)

\* lines 142-154, 199-215 and 264-288: the geocode step and the places
\* queries it scopes; queries is the sequence of <<query text, answer>> of
\* the places calls made when the location is found. The result is the
\* sequence of place lists (all empty when geocoding finds nothing), or the
\* first exception, with the requests made.
RECURSIVE PlacesQueries(_, _, _, _, _)
PlacesQueries(queries, ll, radius, done, reqs) ==
    IF queries = <<>> THEN [out |-> Ok(done), requests |-> reqs]
    ELSE LET q == Head(queries)
             r == reqs \o << Req("gmaps.places", <<q[1], ll, radius>>) >>
         IN  IF q[2].kind = "raise" THEN [out |-> q[2], requests |-> r]
             ELSE PlacesQueries(Tail(queries), ll, radius,
                                Append(done, GetResults(q[2].value)), r)

\* a variant that resolves the location a second time before the queries
GeocodeTwiceThenPlaces(location, queries, radius, env) ==
    LET r0 == << Req("gmaps.geocode", <<location>>), Req("gmaps.geocode", <<location>>) >> IN
    IF env.geocode.kind = "raise" THEN [out |-> env.geocode, requests |-> r0]
    ELSE IF env.geocode.value # <<>>
    THEN PlacesQueries(queries, LatLng(env.geocode.value), radius, <<>>, r0)
    ELSE [out |-> Ok([k \in 1..Len(queries) |-> <<>>]), requests |-> r0]

GeocodeThenPlaces(location, queries, radius, env) ==
    LET r0 == << Req("gmaps.geocode", <<location>>) >> IN
    IF env.geocode.kind = "raise" THEN [out |-> env.geocode, requests |-> r0]
    ELSE IF env.geocode.value # <<>>
    THEN PlacesQueries(queries, LatLng(env.geocode.value), radius, <<>>, r0)
    ELSE [out |-> Ok([k \in 1..Len(queries) |-> <<>>]), requests |-> r0]

\* lines 142-167
hotel_search(location, check_in, check_out, guests, env) ==
    LET g == GeocodeThenPlaces(location,
                 << << <<"hotels in ", location>>, env.places >> >>, HotelRadius, env)
        search_query == <<"best hotels ", location, " ", check_in, " ", check_out, " booking">>
        reqs == g.requests \o << Req("tavily.search", <<search_query, HotelMaxResults>>) >>
    IN  IF g.out.kind = "raise" THEN Raised(g.out.exc, g.requests)
        ELSE IF env.search.kind = "raise" THEN Raised(env.search.exc, reqs)
        ELSE Returned([location |-> location,
                       check_in |-> check_in,
                       check_out |-> check_out,
                       guests |-> guests,
                       google_places_hotels |-> g.out.value[1],
                       web_search_results |-> env.search.value], reqs)

\* lines 199-232
restaurant_search(location, cuisine_type, price_range, env) ==
    LET query == IF Given(cuisine_type) THEN <<cuisine_type[1], " restaurants">>
                 ELSE <<"restaurants">>
        g == GeocodeThenPlaces(location,
                 << << query \o <<" in ", location>>, env.places >> >>, HotelRadius, env)
        search_query == <<"best restaurants ", location>> \o Suffix(" ", cuisine_type)
                            \o Suffix(" ", price_range)
        reqs == g.requests \o << Req("tavily.search", <<search_query, HotelMaxResults>>) >>
    IN  IF g.out.kind = "raise" THEN Raised(g.out.exc, g.requests)
        ELSE IF env.search.kind = "raise" THEN Raised(env.search.exc, reqs)
        ELSE Returned([location |-> location,
                       cuisine_type |-> cuisine_type,
                       price_range |-> price_range,
                       google_places_restaurants |-> g.out.value[1],
                       web_search_results |-> env.search.value], reqs)

\* lines 264-304
activity_search(location, activity_type, duration, env) ==
    LET query == IF Given(activity_type) THEN <<activity_type[1], " attractions">>
                 ELSE <<"attractions">>
        g == GeocodeThenPlaces(location,
                 << << query \o <<" in ", location>>, env.places >>,
                    << <<"tourist attractions ", location>>, env.spots >> >>,
                 ActivityRadius, env)
        search_query == <<"things to do ", location, " attractions activities">>
                            \o Suffix(" ", activity_type)
        reqs == g.requests \o << Req("tavily.search", <<search_query, FlightMaxResults>>) >>
    IN  IF g.out.kind = "raise" THEN Raised(g.out.exc, g.requests)
        ELSE IF env.search.kind = "raise" THEN Raised(env.search.exc, reqs)
        ELSE Returned([location |-> location,
                       activity_type |-> activity_type,
                       duration |-> duration,
                       google_places_attractions |-> g.out.value[1],
                       google_places_tourist_spots |-> g.out.value[2],
                       web_search_results |-> env.search.value], reqs)

\* lines 349 and 356: the parsed body of a 200 response, {} for any other
\* status; a body that does not parse raises
WeatherBody(r) ==
    IF r.status_code = HTTP_OK THEN r.json ELSE Ok(EmptyDict)

\* lines 339-360: the two weather requests inside one try block; an
\* exception of either replaces both fields
WeatherFields(lat, lng, days, env) ==
    LET r1 == << Req("GET currentConditions:lookup", <<lat, lng>>) >>
        r2 == r1 \o << Req("GET forecast/days:lookup", <<lat, lng, days>>) >>
        cur == IF env.current.kind = "ok" THEN WeatherBody(env.current.value)
               ELSE env.current
        fc == IF env.forecast.kind = "ok" THEN WeatherBody(env.forecast.value)
              ELSE env.forecast
        failed(e) == [error |-> <<"Weather API error: ", e.msg>>]
    IN  IF cur.kind = "raise"
        THEN [current_weather |-> failed(cur.exc), forecast |-> failed(cur.exc),
              requests |-> r1]
        ELSE IF fc.kind = "raise"
        THEN [current_weather |-> failed(fc.exc), forecast |-> failed(fc.exc),
              requests |-> r2]
        ELSE [current_weather |-> cur.value, forecast |-> fc.value, requests |-> r2]

\* weather_forecast that searches the web before it gives up on a location
\* geocoding did not find
WeatherForecastSearchesFirst(location, days, env) ==
    LET r0 == << Req("gmaps.geocode", <<location>>) >>
        rs == << Req("tavily.search",
                     << <<"weather forecast ", location, " ", days, " days">>,
                        WeatherMaxResults >>) >>
    IN
    IF env.geocode.kind = "raise" THEN Raised(env.geocode.exc, r0)
    ELSE IF env.geocode.value = <<>>
    THEN Returned([error |-> <<"Could not find location: ", location>>], r0 \o rs)
    ELSE LET ll == LatLng(env.geocode.value)
             w == WeatherFields(ll[1], ll[2], days, env)
         IN  IF env.search.kind = "raise"
             THEN Raised(env.search.exc, r0 \o w.requests \o rs)
             ELSE Returned([location |-> location,
                            coordinates |-> [lat |-> ll[1], lng |-> ll[2]],
                            current_weather |-> w.current_weather,
                            forecast |-> w.forecast,
                            web_search_weather |-> env.search.value,
                            days |-> days], r0 \o w.requests \o rs)

\* lines 331-372
weather_forecast(location, days, env) ==
    LET r0 == << Req("gmaps.geocode", <<location>>) >> IN
    IF env.geocode.kind = "raise" THEN Raised(env.geocode.exc, r0)
    ELSE IF env.geocode.value = <<>>
    THEN Returned([error |-> <<"Could not find location: ", location>>], r0)
    ELSE LET ll == LatLng(env.geocode.value)
             w == WeatherFields(ll[1], ll[2], days, env)
             reqs == r0 \o w.requests
                        \o << Req("tavily.search",
                                  << <<"weather forecast ", location, " ", days, " days">>,
                                     WeatherMaxResults >>) >>
         IN  IF env.search.kind = "raise" THEN Raised(env.search.exc, reqs)
             ELSE Returned([location |-> location,
                            coordinates |-> [lat |-> ll[1], lng |-> ll[2]],
                            current_weather |-> w.current_weather,
                            forecast |-> w.forecast,
                            web_search_weather |-> env.search.value,
                            days |-> days], reqs)

\* the invocations of the specialized agents' tools
SaCalls ==
    [tool : {"flight_search"}, origin : {"Paris"}, destination : {"Lyon"},
     departure_date : {"2024-06-01"}, return_date : {<<>>, <<"2024-06-05">>},
     env : [search : TavilyAnswers, directions : DirectionsAnswers]]
    \cup [tool : {"hotel_search"}, location : {"Paris"}, check_in : {"2024-06-01"},
          check_out : {"2024-06-05"}, guests : {2},
          env : [geocode : GeocodeAnswers, places : PlacesAnswers, search : TavilyAnswers]]
    \cup [tool : {"restaurant_search"}, location : {"Paris"},
          cuisine_type : {<<>>, <<"thai">>}, price_range : {<<>>, <<"budget">>},
          env : [geocode : GeocodeAnswers, places : PlacesAnswers, search : TavilyAnswers]]
    \cup [tool : {"activity_search"}, location : {"Paris"},
          activity_type : {<<>>, <<"museum">>}, duration : {<<>>},
          env : [geocode : GeocodeAnswers, places : PlacesAnswers,
                 spots : PlacesAnswers, search : TavilyAnswers]]
    \cup [tool : {"weather_forecast"}, location : {"Paris"}, days : {7},
          env : [geocode : GeocodeAnswers, current : WeatherAnswers,
                 forecast : WeatherAnswers, search : TavilyAnswers]]

SaInit ==
    /\ sa_call \in SaCalls
    /\ sa_ret = NoReturn

Call_flight_search ==
    /\ sa_call.tool = "flight_search"
    /\ sa_ret = NoReturn
    /\ sa_ret' = flight_search(sa_call.origin, sa_call.destination,
                               sa_call.departure_date, sa_call.return_date, sa_call.env)
    /\ UNCHANGED sa_call
    /\ OnlySa

Call_hotel_search ==
    /\ sa_call.tool = "hotel_search"
    /\ sa_ret = NoReturn
    /\ sa_ret' = hotel_search(sa_call.location, sa_call.check_in, sa_call.check_out,
                              sa_call.guests, sa_call.env)
    /\ UNCHANGED sa_call
    /\ OnlySa

Call_restaurant_search ==
    /\ sa_call.tool = "restaurant_search"
    /\ sa_ret = NoReturn
    /\ sa_ret' = restaurant_search(sa_call.location, sa_call.cuisine_type,
                                   sa_call.price_range, sa_call.env)
    /\ UNCHANGED sa_call
    /\ OnlySa

Call_activity_search ==
    /\ sa_call.tool = "activity_search"
    /\ sa_ret = NoReturn
    /\ sa_ret' = activity_search(sa_call.location, sa_call.activity_type,
                                 sa_call.duration, sa_call.env)
    /\ UNCHANGED sa_call
    /\ OnlySa

Call_weather_forecast ==
    /\ sa_call.tool = "weather_forecast"
    /\ sa_ret = NoReturn
    /\ sa_ret' = weather_forecast(sa_call.location, sa_call.days, sa_call.env)
    /\ UNCHANGED sa_call
    /\ OnlySa

SaNext ==
    \/ Call_flight_search
    \/ Call_hotel_search
    \/ Call_restaurant_search
    \/ Call_activity_search
    \/ Call_weather_forecast

(***************************************************************************)
(* agent/coordinator.py: the delegation operations. Each starts a run of   *)
(* its specialized agent, awaits it, and wraps the run's output.           *)
(***************************************************************************)
\* an output object of a specialized agent: its class and its fields
Obj(cls, fields) == [cls |-> cls, fields |-> fields]

\* multi_agent.py lines 20-51: the output models, one instance of each
AFlightResult ==
    Obj("FlightResult", [origin |-> "Paris", destination |-> "Lyon",
                         departure_date |-> "2024-06-01", flights |-> <<>>,
                         total_duration |-> "1h", estimated_cost |-> "100"])
AHotelResult ==
    Obj("HotelResult", [location |-> "Paris", check_in |-> "2024-06-01",
                        check_out |-> "2024-06-05", hotels |-> <<>>,
                        price_range |-> "mid"])
ARestaurantResult ==
    Obj("RestaurantResult", [location |-> "Paris", restaurants |-> <<>>,
                             cuisine_types |-> <<"thai">>])
AnActivityResult ==
    Obj("ActivityResult", [location |-> "Paris", activities |-> <<>>,
                           categories |-> <<"museum">>])
AFailed == Obj("Failed", [reason |-> "nothing found"])

\* the output a run of each agent can end with: an instance of a member of
\* its output_type; weather_agent declares none, so its output is a str
AgentOutputs(agent) ==
    CASE agent = "flight_agent" -> {AFlightResult, AFailed}
      [] agent = "hotel_agent" -> {AHotelResult, AFailed}
      [] agent = "restaurant_agent" -> {ARestaurantResult, AFailed}
      [] agent = "activity_agent" -> {AnActivityResult, AFailed}
      [] agent = "weather_agent" ->
           {Obj("str", [text |-> "sunny all week"]),
            Obj("str", [text |-> "could not find the location"])}

\* how a run of a specialized agent ends: with an output, or with an
\* exception (of a tool, which the run does not catch, or of the completion
\* engine once its retries are used up)
AgentRuns(agent) ==
    { Ok(o) : o \in AgentOutputs(agent) }
    \cup { Raise("googlemaps.TransportError"),
           Raise("pydantic_ai.UnexpectedModelBehavior") }

\* multi_agent.py lines 14-17 and 376-384: the dependency bundle
TheDeps == [gmaps |-> "googlemaps.Client", tavily_client |-> "TavilyClient"]

\* result.output.model_dump() if hasattr(result.output, 'model_dump')
\* else str(result.output)
DumpOrStr(output) ==
    IF output.cls = "str" THEN output.fields.text ELSE output.fields

\* isinstance(result.output, Failed)
IsFailed(output) == output.cls = "Failed"

DelegReturned(record) == [kind |-> "returned", value |-> record]
DelegRaised(e) == [kind |-> "raised", exc |-> e]

\* lines 79-84
flight_prompt(origin, destination, departure_date, return_date) ==
    <<"Find flights from ", origin, " to ", destination, " departing ", departure_date>>
        \o Suffix(" returning ", return_date)

\* flight_search_delegate with the success flag of weather_forecast_delegate
FlightDelegateAlwaysSuccess(origin, destination, departure_date, return_date, run) ==
    IF run.kind = "raise" THEN DelegRaised(run.exc)
    ELSE DelegReturned([agent |-> "flight_agent",
                        query |-> <<"Flights ", origin, " -> ", destination>>,
                        result |-> DumpOrStr(run.value),
                        success |-> TRUE])

\* lines 79-91: run is how the awaited flight_agent.run ended
flight_search_delegate(origin, destination, departure_date, return_date, run) ==
    IF run.kind = "raise" THEN DelegRaised(run.exc)
    ELSE DelegReturned([agent |-> "flight_agent",
                        query |-> <<"Flights ", origin, " -> ", destination>>,
                        result |-> DumpOrStr(run.value),
                        success |-> ~IsFailed(run.value)])

\* lines 105-109
hotel_prompt(location, check_in, check_out, guests) ==
    <<"Find hotels in ", location, " from ", check_in, " to ", check_out,
      " for ", guests, " guests">>

\* hotel_search_delegate turning the Failed output into an exception
HotelDelegateRaisesOnFailed(location, check_in, check_out, guests, run) ==
    IF run.kind = "raise" THEN DelegRaised(run.exc)
    ELSE IF IsFailed(run.value)
    THEN DelegRaised(Exc("RuntimeError", run.value.fields.reason))
    ELSE DelegReturned([agent |-> "hotel_agent",
                        query |-> <<"Hotels in ", location>>,
                        result |-> DumpOrStr(run.value),
                        success |-> TRUE])

\* lines 105-116
hotel_search_delegate(location, check_in, check_out, guests, run) ==
    IF run.kind = "raise" THEN DelegRaised(run.exc)
    ELSE DelegReturned([agent |-> "hotel_agent",
                        query |-> <<"Hotels in ", location>>,
                        result |-> DumpOrStr(run.value),
                        success |-> ~IsFailed(run.value)])

\* lines 129-139
restaurant_prompt(location, cuisine_type, price_range) ==
    <<"Find restaurants in ", location>>
        \o (IF Given(cuisine_type) THEN <<" serving ", cuisine_type[1], " cuisine">> ELSE <<>>)
        \o (IF Given(price_range) THEN <<" in ", price_range[1], " price range">> ELSE <<>>)

\* lines 129-146
restaurant_search_delegate(location, cuisine_type, price_range, run) ==
    IF run.kind = "raise" THEN DelegRaised(run.exc)
    ELSE DelegReturned([agent |-> "restaurant_agent",
                        query |-> <<"Restaurants in ", location>>,
                        result |-> DumpOrStr(run.value),
                        success |-> ~IsFailed(run.value)])

\* lines 159-169
activity_prompt(location, activity_type, duration) ==
    <<"Find activities and attractions in ", location>>
        \o Suffix(" focusing on ", activity_type)
        \o Suffix(" suitable for ", duration)

\* activity_search_delegate with the tag of the hotel operation left in
ActivityDelegateNamesHotel(location, activity_type, duration, run) ==
    IF run.kind = "raise" THEN DelegRaised(run.exc)
    ELSE DelegReturned([agent |-> "hotel_agent",
                        query |-> <<"Activities in ", location>>,
                        result |-> DumpOrStr(run.value),
                        success |-> ~IsFailed(run.value)])

\* lines 159-176
activity_search_delegate(location, activity_type, duration, run) ==
    IF run.kind = "raise" THEN DelegRaised(run.exc)
    ELSE DelegReturned([agent |-> "activity_agent",
                        query |-> <<"Activities in ", location>>,
                        result |-> DumpOrStr(run.value),
                        success |-> ~IsFailed(run.value)])

\* lines 187-191
weather_prompt(location, days) ==
    <<"Get weather forecast for ", location, " for ", days, " days">>

\* lines 187-198: the output is passed on as it is and success is True
weather_forecast_delegate(location, days, run) ==
    IF run.kind = "raise" THEN DelegRaised(run.exc)
    ELSE DelegReturned([agent |-> "weather_agent",
                        query |-> <<"Weather for ", location>>,
                        result |-> run.value.fields.text,
                        success |-> TRUE])

\* the RunContext the coordinator hands to its tools
Ctx == [deps |-> TheDeps, usage |-> "usage"]

\* the delegation calls the coordinator's reasoning step can make
DelegCalls ==
    [op : {"flight_search_delegate"}, ctx : {Ctx}, origin : {"Paris"},
     destination : {"Lyon"}, departure_date : {"2024-06-01"},
     return_date : {<<>>, <<"2024-06-05">>}]
    \cup [op : {"hotel_search_delegate"}, ctx : {Ctx}, location : {"Paris"},
          check_in : {"2024-06-01"}, check_out : {"2024-06-05"}, guests : {1, 2}]
    \cup [op : {"restaurant_search_delegate"}, ctx : {Ctx}, location : {"Paris"},
          cuisine_type : {<<>>, <<"thai">>}, price_range : {<<>>, <<"budget">>}]
    \cup [op : {"activity_search_delegate"}, ctx : {Ctx}, location : {"Paris"},
          activity_type : {<<>>, <<"museum">>}, duration : {<<>>, <<"half-day">>}]
    \cup [op : {"weather_forecast_delegate"}, ctx : {Ctx}, location : {"Paris"},
          days : {3, 7}]

DelegInit ==
    /\ d_call \in DelegCalls
    /\ d_pc = "start"
    /\ d_log = <<>>
    /\ d_run = NoReturn
    /\ d_ret = NoReturn

\* the operation runs to its await: agent.run(prompt, deps=ctx.deps, usage=ctx.usage)
StartRun(op, agent, prompt) ==
    /\ d_pc = "start"
    /\ d_call.op = op
    /\ d_log' = Append(d_log, [agent |-> agent, prompt |-> prompt,
                               deps |-> d_call.ctx.deps, usage |-> d_call.ctx.usage])
    /\ d_pc' = "awaiting"
    /\ UNCHANGED <<d_call, d_run, d_ret>>
    /\ OnlyDeleg

Start_flight_search_delegate ==
    StartRun("flight_search_delegate", "flight_agent",
             flight_prompt(d_call.origin, d_call.destination, d_call.departure_date,
                           d_call.return_date))

Start_hotel_search_delegate ==
    StartRun("hotel_search_delegate", "hotel_agent",
             hotel_prompt(d_call.location, d_call.check_in, d_call.check_out,
                          d_call.guests))

Start_restaurant_search_delegate ==
    StartRun("restaurant_search_delegate", "restaurant_agent",
             restaurant_prompt(d_call.location, d_call.cuisine_type, d_call.price_range))

Start_activity_search_delegate ==
    StartRun("activity_search_delegate", "activity_agent",
             activity_prompt(d_call.location, d_call.activity_type, d_call.duration))

Start_weather_forecast_delegate ==
    StartRun("weather_forecast_delegate", "weather_agent",
             weather_prompt(d_call.location, d_call.days))

\* the awaited run of the specialized agent ends
AgentRunEnds ==
    /\ d_pc = "awaiting"
    /\ \E r \in AgentRuns(d_log[Len(d_log)].agent) : d_run' = r
    /\ d_pc' = "resumed"
    /\ UNCHANGED <<d_call, d_log, d_ret>>
    /\ OnlyDeleg

\* the operation resumes after its await and ends
Finish(op, outcome) ==
    /\ d_pc = "resumed"
    /\ d_call.op = op
    /\ d_ret' = outcome
    /\ d_pc' = "done"
    /\ UNCHANGED <<d_call, d_log, d_run>>
    /\ OnlyDeleg

Finish_flight_search_delegate ==
    Finish("flight_search_delegate",
           flight_search_delegate(d_call.origin, d_call.destination,
                                  d_call.departure_date, d_call.return_date, d_run))

Finish_hotel_search_delegate ==
    Finish("hotel_search_delegate",
           hotel_search_delegate(d_call.location, d_call.check_in, d_call.check_out,
                                 d_call.guests, d_run))

Finish_restaurant_search_delegate ==
    Finish("restaurant_search_delegate",
           restaurant_search_delegate(d_call.location, d_call.cuisine_type,
                                      d_call.price_range, d_run))

Finish_activity_search_delegate ==
    Finish("activity_search_delegate",
           activity_search_delegate(d_call.location, d_call.activity_type,
                                    d_call.duration, d_run))

Finish_weather_forecast_delegate ==
    Finish("weather_forecast_delegate",
           weather_forecast_delegate(d_call.location, d_call.days, d_run))

DelegNext ==
    \/ Start_flight_search_delegate
    \/ Start_hotel_search_delegate
    \/ Start_restaurant_search_delegate
    \/ Start_activity_search_delegate
    \/ Start_weather_forecast_delegate
    \/ AgentRunEnds
    \/ Finish_flight_search_delegate
    \/ Finish_hotel_search_delegate
    \/ Finish_restaurant_search_delegate
    \/ Finish_activity_search_delegate
    \/ Finish_weather_forecast_delegate

(***************************************************************************)
(* agent/coordinator.py: rendering a TravelPlan. The plan is the dict of   *)
(* TravelPlan.model_dump(); its Dict[str, Any] fields hold whatever the    *)
(* coordinator's completion wrote, so values carry their Python type:      *)
(* a dict is the sequence of its <<key, value>> items in insertion order.  *)
(***************************************************************************)
NoneV == [t |-> "none"]
StrV(x) == [t |-> "str", v |-> x]
IntV(n) == [t |-> "int", v |-> n]
BoolV(b) == [t |-> "bool", v |-> b]
ListV(xs) == [t |-> "list", v |-> xs]
DictV(items) == [t |-> "dict", v |-> items]

\* Python truth value
TruthyV(x) ==
    CASE x.t = "none" -> FALSE
      [] x.t = "str" -> x.v # ""
      [] x.t = "int" -> x.v # 0
      [] x.t = "bool" -> x.v
      [] x.t \in {"list", "dict"} -> x.v # <<>>

\* key in d
HasKey(d, key) == \E k \in 1..Len(d.v) : d.v[k][1] = key

\* d.get(key, default)
DictGet(d, key, default) ==
    IF HasKey(d, key)
    THEN d.v[CHOOSE k \in 1..Len(d.v) : d.v[k][1] = key][2]
    ELSE default

\* xs[:n] without the limit
TakeAll(xs, n) == xs

\* xs[:n]
Take(xs, n) == SubSeq(xs, 1, IF Len(xs) < n THEN Len(xs) ELSE n)

\* the fixed number of raw records a section shows, and of list items
TopN == 3
TopItems == 5

\* line 323
PlacesKeys ==
    {"google_places_hotels", "google_places_restaurants", "google_places_attractions"}

\* key.startswith('_'), for the keys of the model
IsPrivateKey(key) == key \in {"_raw"}

AttributeErr == Raise("AttributeError")

\* lines 324-326 and 333-335: value[:3] of a truthy value, item by item.
\* The characters of a str have no .get; a number has no len and no slice
NotAList(value) == IF value.t = "str" THEN AttributeErr ELSE Raise("TypeError")

\* sequencing of two computations that return lines or raise: the first
\* exception ends the function
Both(first, rest) ==
    IF first.kind = "raise" THEN first
    ELSE IF rest.kind = "raise" THEN rest
    ELSE Ok(first.value \o rest.value)

\* the text of a computation under a heading, when it has not raised
Under(heading, lines) ==
    IF lines.kind = "raise" THEN lines ELSE Ok(heading \o lines.value)

\* lines 326-329 and 335-338: one "- ..." line per item of items[:3]; an
\* item that is not a dict has no .get
RECURSIVE ItemLines(_, _, _, _, _)
ItemLines(items, k1, d1, k2, d2) ==
    IF items = <<>> THEN Ok(<<>>)
    ELSE IF Head(items).t # "dict" THEN AttributeErr
    ELSE Under(<< <<"- ", DictGet(Head(items), k1, d1), DictGet(Head(items), k2, d2)>> >>,
               ItemLines(Tail(items), k1, d1, k2, d2))

\* lines 323-341: what one item of the dict adds to the text
SectionItem(key, value) ==
    IF key \in PlacesKeys
    THEN IF TruthyV(value)
         THEN IF value.t # "list" THEN NotAList(value)
              ELSE Under(<< <<"**", "title", key, ":**">> >>,
                         ItemLines(Take(value.v, TopN), "name", StrV("Unknown"),
                                   "rating", StrV("N/A")))
         ELSE Ok(<<>>)
    ELSE IF key = "web_search_results" /\ value.t = "dict"
    THEN IF TruthyV(DictGet(value, "results", ListV(<<>>)))
         THEN IF DictGet(value, "results", ListV(<<>>)).t # "list"
              THEN NotAList(DictGet(value, "results", ListV(<<>>)))
              ELSE Under(<< <<"**Web Search Results:**">> >>,
                         ItemLines(Take(DictGet(value, "results", ListV(<<>>)).v, TopN),
                                   "title", StrV("No title"), "url", StrV("#")))
         ELSE Ok(<<>>)
    ELSE IF value.t \in {"str", "int", "bool"} /\ ~IsPrivateKey(key)
    THEN Ok(<< <<"**", "title", key, ":** ", value>> >>)
    ELSE Ok(<<>>)

\* lines 321-341: the loop over data.items()
RECURSIVE SectionItems(_)
SectionItems(items) ==
    IF items = <<>> THEN Ok(<<>>)
    ELSE Both(SectionItem(Head(items)[1], Head(items)[2]), SectionItems(Tail(items)))

\* line 343: formatted if formatted else str(data)
OrStr(formatted, data) ==
    IF formatted.kind = "ok" /\ formatted.value = <<>>
    THEN Ok(<< <<"str", data>> >>)
    ELSE formatted

\* lines 315-349: the text of a section as its sequence of lines, or the
\* exception formatting it raises
_format_section(data) ==
    IF data.t = "dict"
    THEN IF HasKey(data, "error")
         THEN Ok(<< <<"warning: ", DictGet(data, "error", NoneV)>> >>)
         ELSE OrStr(SectionItems(data.v), data)
    ELSE IF data.t = "list"
    THEN Ok([k \in 1..Len(Take(data.v, TopItems)) |-> <<"- ", data.v[k]>>])
    ELSE Ok(<< <<"str", data>> >>)

\* a heading and a formatted body as one section of the report
Section(head, body) ==
    IF body.kind = "raise" THEN body ELSE Ok(<< [head EXCEPT !.body = body.value] >>)

\* one domain section that formats the result of every mapping, failed or not
DomainSectionShowsFailed(name, agentLabel, placeholder, value) ==
    IF ~TruthyV(value) THEN Ok(<<>>)
    ELSE IF value.t = "dict"
    THEN Section([section |-> name, by |-> agentLabel, body |-> <<>>],
                 _format_section(DictGet(value, "result", DictV(<<>>))))
    ELSE Ok(<< [section |-> name, placeholder |-> placeholder] >>)

\* lines 256-298: one domain section; nothing when the field is falsy
DomainSection(name, agentLabel, placeholder, value) ==
    IF ~TruthyV(value) THEN Ok(<<>>)
    ELSE IF value.t = "dict" /\ TruthyV(DictGet(value, "success", NoneV))
    THEN Section([section |-> name, by |-> agentLabel, body |-> <<>>],
                 _format_section(DictGet(value, "result", DictV(<<>>))))
    ELSE Ok(<< [section |-> name, placeholder |-> placeholder] >>)

\* lines 301-304: "### Day i" and the formatted entry, for i = 1, 2, ...
RECURSIVE ItineraryDays(_, _)
ItineraryDays(days, i) ==
    IF days = <<>> THEN Ok(<<>>)
    ELSE Both(Section([day |-> i, body |-> <<>>], _format_section(Head(days))),
              ItineraryDays(Tail(days), i + 1))

\* lines 300-304; a truthy daily_itinerary is a list (List[Dict[str, Any]])
ItinerarySection(value) ==
    IF ~TruthyV(value) THEN Ok(<<>>)
    ELSE Section([section |-> "itinerary", body |-> <<>>], ItineraryDays(value.v, 1))

\* the sections in the order the function appends them
RECURSIVE Concat(_)
Concat(parts) ==
    IF parts = <<>> THEN Ok(<<>>)
    ELSE Both(Head(parts), Concat(Tail(parts)))

\* the report with the weather section appended before the activities
FormatPlanWeatherBeforeActivities(plan) ==
    Concat(<<
        Ok(<< "# Multi-Agent Travel Plan",
              [section |-> "overview", query |-> plan.query,
               destination |-> plan.destination, duration |-> plan.duration] >>),
        DomainSection("flights", "Flight Agent",
                      "*No flight recommendations available*",
                      plan.flight_recommendations),
        DomainSection("hotels", "Hotel Agent",
                      "*No hotel recommendations available*",
                      plan.hotel_recommendations),
        DomainSection("restaurants", "Restaurant Agent",
                      "*No restaurant recommendations available*",
                      plan.restaurant_recommendations),
        DomainSection("weather", "Weather Agent",
                      "*No weather information available*",
                      plan.weather_forecast),
        DomainSection("activities", "Activity Agent",
                      "*No activity recommendations available*",
                      plan.activity_recommendations),
        ItinerarySection(plan.daily_itinerary),
        IF TruthyV(plan.total_estimated_cost)
        THEN Ok(<< [section |-> "cost", text |-> plan.total_estimated_cost] >>)
        ELSE Ok(<<>>),
        Ok(<< [section |-> "footer"] >>)
    >>)

\* lines 241-313: the report as its title followed by its sections
_format_travel_plan(plan) ==
    Concat(<<
        Ok(<< "# Multi-Agent Travel Plan",
              [section |-> "overview", query |-> plan.query,
               destination |-> plan.destination, duration |-> plan.duration] >>),
        DomainSection("flights", "Flight Agent",
                      "*No flight recommendations available*",
                      plan.flight_recommendations),
        DomainSection("hotels", "Hotel Agent",
                      "*No hotel recommendations available*",
                      plan.hotel_recommendations),
        DomainSection("restaurants", "Restaurant Agent",
                      "*No restaurant recommendations available*",
                      plan.restaurant_recommendations),
        DomainSection("activities", "Activity Agent",
                      "*No activity recommendations available*",
                      plan.activity_recommendations),
        DomainSection("weather", "Weather Agent",
                      "*No weather information available*",
                      plan.weather_forecast),
        ItinerarySection(plan.daily_itinerary),
        IF TruthyV(plan.total_estimated_cost)
        THEN Ok(<< [section |-> "cost", text |-> plan.total_estimated_cost] >>)
        ELSE Ok(<<>>),
        Ok(<< [section |-> "footer"] >>)
    >>)

(***************************************************************************)
(* The facades. TravelAgent.run (agent/agent.py) and                       *)
(* MultiAgentTravelAgent.run (agent/coordinator.py) are translated from    *)
(* the source. The top-level constructor that takes use_multi_agent and    *)
(* get_agent_info are called by test_multi_agent.py but are not part of    *)
(* the source tree; they follow the specification's description.           *)
(***************************************************************************)
Credentials == {"GOOGLE_CLIENT_API_KEY", "TAVILY_API_KEY"}

\* the variant that reads the keys with a default, as agent.py line 16 does
CreateDependenciesWithDefaults(env) ==
    [kind |-> "ok", value |-> [gmaps |-> "gmaps", tavily_client |-> "tavily"]]

\* multi_agent.py lines 376-384: os.environ[name] raises KeyError for a
\* name that is not set; the Google key is read first
create_travel_dependencies(env) ==
    IF "GOOGLE_CLIENT_API_KEY" \notin env THEN Raise("KeyError")
    ELSE IF "TAVILY_API_KEY" \notin env THEN Raise("KeyError")
    ELSE Ok([gmaps |-> "gmaps", tavily_client |-> "tavily"])

\* agent.py line 16 runs when the module is imported:
\* googlemaps.Client(key=os.environ.get("GOOGLE_CLIENT_API_KEY", "")).
\* What the client does with the empty key is the library's business: the
\* import either goes through or raises ValueError
ImportOutcomes(env) ==
    IF "GOOGLE_CLIENT_API_KEY" \in env THEN {Ok("agent")}
    ELSE {Ok("agent"), Raise("ValueError")}

\* the constructor of the top-level facade: multi-agent mode when it is
\* requested and its dependencies can be created, single-agent mode otherwise
SelectMode(use_multi_agent, env) ==
    IF use_multi_agent /\ create_travel_dependencies(env).kind = "ok"
    THEN "multi-agent"
    ELSE "single-agent"

NoInfo == [mode |-> "none"]

\* get_agent_info: the keys test_multi_agent.py reads
get_agent_info(mode) ==
    [mode |-> mode,
     agents |-> IF mode = "multi-agent"
                THEN <<"coordinator", "flight", "hotel", "restaurant", "activity", "weather">>
                ELSE <<"travel_agent">>,
     description |-> <<"description of", mode>>]

\* how run(query) ends
RunReturned(response, trace) == [kind |-> "returned", value |-> <<response, trace>>]
RunRaised(e) == [kind |-> "raised", exc |-> e]

\* `except Exception as e: return f"<prefix>{str(e)}", []` around a body
\* that ends with `body`
ExceptException(body, prefix) ==
    IF body.kind = "ok" THEN RunReturned(body.value[1], body.value[2])
    ELSE IF Catches("Exception", body.exc)
    THEN RunReturned(<<prefix, body.exc.msg>>, <<>>)
    ELSE RunRaised(body.exc)

\* the same handler written as `except ValueError as e`
ExceptValueErrorOnly(body, prefix) ==
    IF body.kind = "ok" THEN RunReturned(body.value[1], body.value[2])
    ELSE IF Catches("ValueError", body.exc)
    THEN RunReturned(<<prefix, body.exc.msg>>, <<>>)
    ELSE RunRaised(body.exc)

\* agent.py lines 236-237: the try body, given how run_sync ended
TravelAgentTry(engine) ==
    IF engine.kind = "raise" THEN engine
    ELSE IF engine.value.all_messages_json.kind = "raise"
    THEN engine.value.all_messages_json
    ELSE Ok(<<engine.value.output, engine.value.all_messages_json.value>>)

\* TravelAgent.run with the narrower handler
TravelAgentRunNarrow(engine) ==
    ExceptValueErrorOnly(TravelAgentTry(engine), "Agent execution failed: ")

\* agent.py lines 224-240
TravelAgent_run(engine) ==
    ExceptException(TravelAgentTry(engine), "Agent execution failed: ")

\* line 235: return response_text, result.all_messages_json()
PairOf(text, json) ==
    IF text.kind = "raise" THEN text
    ELSE IF json.kind = "raise" THEN json
    ELSE Ok(<<text.value, json.value>>)

\* the try body with a handler of its own around the formatting, which
\* returns the failure text next to the history of the run
MultiAgentTryKeepsHistory(engine) ==
    IF engine.kind = "raise" THEN engine
    ELSE IF /\ _format_travel_plan(engine.value.output.fields).kind = "raise"
            /\ engine.value.all_messages_json.kind = "ok"
    THEN Ok(<< <<"Error in multi-agent travel planning: ",
                 _format_travel_plan(engine.value.output.fields).exc.msg>>,
               engine.value.all_messages_json.value >>)
    ELSE PairOf(_format_travel_plan(engine.value.output.fields),
                engine.value.all_messages_json)

\* coordinator.py lines 226-235: the try body, given how run_sync ended
MultiAgentTry(engine) ==
    IF engine.kind = "raise" THEN engine
    ELSE PairOf(IF engine.value.output.cls = "TravelPlan"
                THEN _format_travel_plan(engine.value.output.fields)
                ELSE Ok(<<"str", engine.value.output>>),
                engine.value.all_messages_json)

\* coordinator.py lines 208-239
MultiAgentTravelAgent_run(engine) ==
    ExceptException(MultiAgentTry(engine), "Error in multi-agent travel planning: ")

\* ---- what the completion engine can hand back ----
\* the record of a delegation operation, as the coordinator copies it
\* into a field of the plan
DelegationDict(agent, result, success) ==
    DictV(<< <<"agent", StrV(agent)>>, <<"query", StrV("q")>>,
             <<"result", result>>, <<"success", BoolV(success)>> >>)

APlace == DictV(<< <<"name", StrV("Ritz")>>, <<"rating", IntV(4)>> >>)

FlightFields ==
    { NoneV,
      DelegationDict("flight", DictV(<< <<"origin", StrV("LAX")>>,
                                        <<"estimated_cost", StrV("$300")>> >>), TRUE),
      DelegationDict("flight", DictV(<< <<"reason", StrV("no flights")>> >>), FALSE) }

\* the second is a plan whose raw records are names, not dicts
HotelFields ==
    { NoneV,
      DelegationDict("hotel", DictV(<< <<"location", StrV("Paris")>>,
                                       <<"google_places_hotels", ListV(<<APlace>>)>> >>), TRUE),
      DelegationDict("hotel", DictV(<< <<"google_places_hotels",
                                         ListV(<<StrV("Ritz")>>)>> >>), TRUE) }

RestaurantFields ==
    { NoneV,
      DelegationDict("restaurant",
                     DictV(<< <<"google_places_restaurants", ListV(<<APlace, APlace>>)>> >>),
                     TRUE),
      DelegationDict("restaurant", DictV(<< <<"error", StrV("Could not find location")>> >>),
                     TRUE) }

ActivityFields ==
    { NoneV,
      DictV(<<>>),
      DelegationDict("activity",
                     DictV(<< <<"web_search_results",
                               DictV(<< <<"results",
                                         ListV(<< DictV(<< <<"title", StrV("Louvre")>> >>) >>)>> >>)>> >>),
                     TRUE) }

WeatherPlanFields ==
    { NoneV,
      DelegationDict("weather", StrV("Sunny, 24 C"), TRUE),
      DictV(<< <<"summary", StrV("Sunny")>> >>) }

ItineraryFields ==
    { NoneV, ListV(<< DictV(<< <<"morning", StrV("Louvre")>> >>), StrV("free day") >>) }

CostFields == { NoneV, StrV("$1500") }

Plans ==
    { [query |-> StrV("q"), destination |-> StrV("Paris"), duration |-> StrV("3 days"),
       flight_recommendations |-> f, hotel_recommendations |-> h,
       restaurant_recommendations |-> r, activity_recommendations |-> a,
       weather_forecast |-> w, daily_itinerary |-> i, total_estimated_cost |-> c] :
      f \in FlightFields, h \in HotelFields, r \in RestaurantFields,
      a \in ActivityFields, w \in WeatherPlanFields, i \in ItineraryFields,
      c \in CostFields }

\* result.all_messages_json(): the serialized history, or the failure of
\* the serializer
MessagesJson == { Ok(<<"messages json">>), Raise("pydantic_core.PydanticSerializationError") }

\* exceptions that leave run_sync: the engine's own, and those of a tool
EngineFailures ==
    { Raise(c) : c \in {"pydantic_ai.UnexpectedModelBehavior",
                        "googlemaps.TransportError", "ValueError"} }

SingleAgentRuns ==
    { Ok([output |-> <<"Here is your trip">>, all_messages_json |-> j]) : j \in MessagesJson }
    \cup EngineFailures

CoordinatorRuns ==
    { Ok([output |-> Obj("TravelPlan", p), all_messages_json |-> j]) :
        p \in Plans, j \in MessagesJson }
    \cup EngineFailures

FacadeInit ==
    /\ f_env \in SUBSET Credentials
    /\ f_req \in BOOLEAN
    /\ f_pc = "start"
    /\ f_mode = "none"
    /\ f_info = NoInfo
    /\ f_engine = NoReturn
    /\ f_ret = NoReturn

\* `from agent import TravelAgent`
ImportAgent ==
    /\ f_pc = "start"
    /\ \E o \in ImportOutcomes(f_env) :
         f_pc' = IF o.kind = "ok" THEN "new" ELSE "import_failed"
    /\ UNCHANGED <<f_env, f_req, f_mode, f_info, f_engine, f_ret>>
    /\ OnlyFacade

\* TravelAgent(use_multi_agent=f_req)
Construct ==
    /\ f_pc = "new"
    /\ f_mode' = SelectMode(f_req, f_env)
    /\ f_pc' = "ready"
    /\ UNCHANGED <<f_env, f_req, f_info, f_engine, f_ret>>
    /\ OnlyFacade

GetAgentInfo ==
    /\ f_pc \in {"ready", "done"}
    /\ f_info = NoInfo
    /\ f_info' = get_agent_info(f_mode)
    /\ UNCHANGED <<f_env, f_req, f_pc, f_mode, f_engine, f_ret>>
    /\ OnlyFacade

\* run(query) enters its try block and calls run_sync
RunStart ==
    /\ f_pc = "ready"
    /\ f_pc' = "running"
    /\ UNCHANGED <<f_env, f_req, f_mode, f_info, f_engine, f_ret>>
    /\ OnlyFacade

\* run_sync comes back
EngineEnds ==
    /\ f_pc = "running"
    /\ f_engine' \in (IF f_mode = "multi-agent" THEN CoordinatorRuns ELSE SingleAgentRuns)
    /\ f_pc' = "ended"
    /\ UNCHANGED <<f_env, f_req, f_mode, f_info, f_ret>>
    /\ OnlyFacade

Finish_TravelAgent_run ==
    /\ f_pc = "ended"
    /\ f_mode = "single-agent"
    /\ f_ret' = TravelAgent_run(f_engine)
    /\ f_pc' = "done"
    /\ UNCHANGED <<f_env, f_req, f_mode, f_info, f_engine>>
    /\ OnlyFacade

Finish_MultiAgentTravelAgent_run ==
    /\ f_pc = "ended"
    /\ f_mode = "multi-agent"
    /\ f_ret' = MultiAgentTravelAgent_run(f_engine)
    /\ f_pc' = "done"
    /\ UNCHANGED <<f_env, f_req, f_mode, f_info, f_engine>>
    /\ OnlyFacade

FacadeNext ==
    \/ ImportAgent
    \/ Construct
    \/ GetAgentInfo
    \/ RunStart
    \/ EngineEnds
    \/ Finish_TravelAgent_run
    \/ Finish_MultiAgentTravelAgent_run

(***************************************************************************)
(* agent/coordinator.py: one run of the coordinator. Which delegation      *)
(* operations it invokes, and in which order, is decided by the            *)
(* completion engine from the system prompt (lines 33-64); the operations  *)
(* one response asks for run as concurrent tasks. The engine is asked for  *)
(* its next response, and so for the plan, when those tasks have ended.    *)
(***************************************************************************)
\* two dependency bundles, to tell one from another
Bundles ==
    { TheDeps, [gmaps |-> "googlemaps.Client#2", tavily_client |-> "TavilyClient#2"] }

\* __init__ building a bundle of its own instead of keeping the argument
InitWithOwnDependencies(dependencies) ==
    [coordinator |-> "travel_coordinator", deps |-> TheDeps]

\* lines 204-206
MultiAgentTravelAgent_init(dependencies) ==
    [coordinator |-> "travel_coordinator", deps |-> dependencies]

\* lines 221-225: run_sync(query, deps=self.deps, model=model) makes the
\* RunContext every tool of the coordinator receives
RunContextOf(self) == [deps |-> self.deps, usage |-> "usage"]

NoObject == [coordinator |-> "none"]
NoContext == [usage |-> "none"]

CoordInit ==
    /\ co_arg \in Bundles
    /\ co_self = NoObject
    /\ co_ctx = NoContext
    /\ co_pc = "new"
    /\ co_events = <<>>
    /\ co_pending = {}
    /\ co_out = "none"

CoConstruct ==
    /\ co_pc = "new"
    /\ co_self' = MultiAgentTravelAgent_init(co_arg)
    /\ co_pc' = "ready"
    /\ UNCHANGED <<co_arg, co_ctx, co_events, co_pending, co_out>>
    /\ OnlyCoord

CoRunSync ==
    /\ co_pc = "ready"
    /\ co_ctx' = RunContextOf(co_self)
    /\ co_pc' = "running"
    /\ UNCHANGED <<co_arg, co_self, co_events, co_pending, co_out>>
    /\ OnlyCoord

Invocations == { i \in 1..Len(co_events) : co_events[i].ev = "invoke" }

\* the engine's response asks for the operation op, which runs to its
\* await: <agent>.run(prompt, deps=ctx.deps, usage=ctx.usage)
CoInvoke(op, agent) ==
    /\ co_pc = "running"
    /\ Cardinality(Invocations) < MaxDelegations
    /\ co_events' = Append(co_events, [ev |-> "invoke", op |-> op, agent |-> agent,
                                       deps |-> co_ctx.deps])
    /\ co_pending' = co_pending \cup {Len(co_events) + 1}
    /\ UNCHANGED <<co_arg, co_self, co_ctx, co_pc, co_out>>
    /\ OnlyCoord

CoInvoke_flight == CoInvoke("flight_search_delegate", "flight_agent")
CoInvoke_hotel == CoInvoke("hotel_search_delegate", "hotel_agent")
CoInvoke_restaurant == CoInvoke("restaurant_search_delegate", "restaurant_agent")
CoInvoke_activity == CoInvoke("activity_search_delegate", "activity_agent")
CoInvoke_weather == CoInvoke("weather_forecast_delegate", "weather_agent")

\* a delegation operation returns its record
CoReturn ==
    /\ co_pc = "running"
    /\ \E i \in co_pending :
         /\ co_events' = Append(co_events, [ev |-> "return", op |-> co_events[i].op,
                                            agent |-> co_events[i].agent,
                                            deps |-> co_events[i].deps])
         /\ co_pending' = co_pending \ {i}
    /\ UNCHANGED <<co_arg, co_self, co_ctx, co_pc, co_out>>
    /\ OnlyCoord

\* a delegation operation raises (C9): the exception ends run_sync
CoRaise ==
    /\ co_pc = "running"
    /\ co_pending # {}
    /\ co_pc' = "failed"
    /\ UNCHANGED <<co_arg, co_self, co_ctx, co_events, co_pending, co_out>>
    /\ OnlyCoord

\* the engine's response is the TravelPlan (output_type, line 32)
CoSynthesize ==
    /\ co_pc = "running"
    /\ co_pending = {}
    /\ co_out' = "TravelPlan"
    /\ co_pc' = "done"
    /\ UNCHANGED <<co_arg, co_self, co_ctx, co_events, co_pending>>
    /\ OnlyCoord

CoordNext ==
    \/ CoConstruct
    \/ CoRunSync
    \/ CoInvoke_flight
    \/ CoInvoke_hotel
    \/ CoInvoke_restaurant
    \/ CoInvoke_activity
    \/ CoInvoke_weather
    \/ CoReturn
    \/ CoRaise
    \/ CoSynthesize

(***************************************************************************)
(* agent/coordinator.py: one call of _format_section on a section's data   *)
(***************************************************************************)
RecordNames == <<"Ritz", "Hilton", "Ibis", "Savoy", "Plaza", "Lux">>

\* the k-th raw place record and the k-th web-search result
PlaceRecord(k) == DictV(<< <<"name", StrV(RecordNames[k])>>, <<"rating", IntV(k)>> >>)
WebRecord(k) == DictV(<< <<"title", StrV(RecordNames[k])>>, <<"url", IntV(k)>> >>)

\* the lists of n distinct records
RECURSIVE PlaceRecords(_)
PlaceRecords(n) == IF n = 0 THEN <<>> ELSE Append(PlaceRecords(n - 1), PlaceRecord(n))
RECURSIVE WebRecords(_)
WebRecords(n) == IF n = 0 THEN <<>> ELSE Append(WebRecords(n - 1), WebRecord(n))
PlaceList(n) == ListV(PlaceRecords(n))
WebList(n) == ListV(WebRecords(n))

\* an item of a dict that may be absent: no item, or the item with one of
\* the values
Optional(key, values) == {<<>>} \cup { << <<key, v>> >> : v \in values }

\* the data of a section as a dict: a scalar, up to two lists of place
\* records and a web-search answer, in this order
DictInputs ==
    { DictV(loc \o hotels \o restaurants \o web) :
        loc \in Optional("location", {StrV("Paris")}),
        hotels \in Optional("google_places_hotels",
                            { PlaceList(n) : n \in 0..MaxRecords }),
        restaurants \in Optional("google_places_restaurants",
                                 { PlaceList(n) : n \in 0..MaxRecords }),
        web \in Optional("web_search_results",
                         { DictV(<< <<"results", WebList(n)>> >>) : n \in 0..MaxRecords }) }

\* a dict carrying an error next to a list of places
ErrorInputs ==
    { DictV(<< <<"error", StrV("Could not find location")>>,
               <<"google_places_hotels", PlaceList(MaxRecords)>> >>) }

\* the data of a section as a list, and as a str
ListInputs == { PlaceList(n) : n \in 0..MaxRecords }
StrInputs == { StrV("Sunny, 24 C") }

SectionInit ==
    /\ \/ fs_data \in DictInputs
       \/ fs_data \in ErrorInputs
       \/ fs_data \in ListInputs
       \/ fs_data \in StrInputs
    /\ fs_out = NoReturn

Call_format_section ==
    /\ fs_out = NoReturn
    /\ fs_out' = _format_section(fs_data)
    /\ UNCHANGED fs_data
    /\ OnlySection

SectionNext == Call_format_section

(***************************************************************************)
(* run_agent.py: the process entry point                                   *)
(***************************************************************************)
NoArgs == [query |-> "", model |-> "", env |-> ""]

\* lines 7-17: the parsed command line; --query is required, --model and
\* --env have defaults
MainArgs ==
    [query : {"Plan a trip to Paris", "Weekend in Rome", "Two days in Tokyo"},
     model : {"o1", "openai:gpt-4o"},
     env : {".env", "prod.env"}]

\* the environment files that exist and hold variables
EnvFiles == {".env"}

\* line 19: True when the file was found and set a variable
load_dotenv(path) == path \in EnvFiles

\* lines 20-21
CheckEnvLoaded(env_loaded) ==
    IF ~env_loaded THEN Raise("ValueError") ELSE Ok(TRUE)

Exited(code) == [kind |-> "exit", code |-> code]

MainInit ==
    /\ m_env \in SUBSET Credentials
    /\ m_args \in MainArgs
    /\ m_pc = "import"
    /\ m_stdout = <<>>
    /\ m_exit = NoReturn

\* lines 1-3: the imports run before anything else; an exception of the
\* import of agent ends the process
Main_import ==
    /\ m_pc = "import"
    /\ \E o \in ImportOutcomes(m_env) :
         IF o.kind = "ok"
         THEN m_pc' = "main" /\ UNCHANGED m_exit
         ELSE m_pc' = "exited" /\ m_exit' = RunRaised(o.exc)
    /\ UNCHANGED <<m_env, m_args, m_stdout>>
    /\ OnlyMain

\* lines 17-21: the raise is not inside any try
Main_load_env ==
    /\ m_pc = "main"
    /\ IF CheckEnvLoaded(load_dotenv(m_args.env)).kind = "raise"
       THEN /\ m_pc' = "exited"
            /\ m_exit' = RunRaised(CheckEnvLoaded(load_dotenv(m_args.env)).exc)
            /\ UNCHANGED m_env
       ELSE /\ m_pc' = "loaded"
            /\ m_env' = Credentials
            /\ UNCHANGED m_exit
    /\ UNCHANGED <<m_args, m_stdout>>
    /\ OnlyMain

\* lines 28-29 for the result r of agent.run
MainPrint(r) ==
    IF r.kind = "returned"
    THEN m_stdout' = Append(m_stdout, r.value[1]) /\ m_exit' = Exited(0)
    ELSE m_exit' = r /\ UNCHANGED m_stdout

\* lines 25-29: TravelAgent(), agent.run(args.query, args.model) with any
\* end of the engine, print(output)
Main_run ==
    /\ m_pc = "loaded"
    /\ \E e \in SingleAgentRuns : MainPrint(TravelAgent_run(e))
    /\ m_pc' = "exited"
    /\ UNCHANGED <<m_env, m_args>>
    /\ OnlyMain

MainNext ==
    \/ Main_import
    \/ Main_load_env
    \/ Main_run

(***************************************************************************)
(* Several runs on one facade: TravelAgent.run (agent.py 224-240) and      *)
(* MultiAgentTravelAgent.run (coordinator.py 208-239)                      *)
(***************************************************************************)
Runs == 1..MaxRuns

\* agent.py lines 221-222
TravelAgent_init == [agent |-> "agent"]

IsMultiAgent(self) == "deps" \in DOMAIN self

\* the facade objects runs are called on
FacadeObjects ==
    {TravelAgent_init} \cup { MultiAgentTravelAgent_init(b) : b \in Bundles }

\* the ends of a coordinator run the runs draw from: any failure, and the
\* plans that hold at most a flight record
FlightOnlyPlans ==
    { p \in Plans :
        /\ p.hotel_recommendations = NoneV
        /\ p.restaurant_recommendations = NoneV
        /\ p.activity_recommendations = NoneV
        /\ p.weather_forecast = NoneV
        /\ p.daily_itinerary = NoneV
        /\ p.total_estimated_cost = NoneV }

RunAnswers(self) ==
    IF IsMultiAgent(self)
    THEN { Ok([output |-> Obj("TravelPlan", p), all_messages_json |-> j]) :
             p \in FlightOnlyPlans, j \in MessagesJson } \cup EngineFailures
    ELSE SingleAgentRuns

\* a variant that keeps the first end of the engine on the object and
\* answers later runs from it
FacadeRunKeepsFirst(self, engine) ==
    IF "first" \in DOMAIN self
    THEN [self |-> self,
          ret |-> IF IsMultiAgent(self) THEN MultiAgentTravelAgent_run(self.first)
                  ELSE TravelAgent_run(self.first)]
    ELSE [self |-> [n \in DOMAIN self \cup {"first"} |->
                      IF n = "first" THEN engine ELSE self[n]],
          ret |-> IF IsMultiAgent(self) THEN MultiAgentTravelAgent_run(engine)
                  ELSE TravelAgent_run(engine)]

\* one run on the object: the object after the run and the pair returned.
\* Neither run method assigns to self or to a module-level name
FacadeRun(self, engine) ==
    [self |-> self,
     ret |-> IF IsMultiAgent(self) THEN MultiAgentTravelAgent_run(engine)
             ELSE TravelAgent_run(engine)]

RunsInit ==
    /\ mr_new \in FacadeObjects
    /\ mr_self = mr_new
    /\ mr_pc = [i \in Runs |-> "ready"]
    /\ mr_engine = [i \in Runs |-> NoReturn]
    /\ mr_ret = [i \in Runs |-> NoReturn]

\* run i calls run_sync
RunsStart(i) ==
    /\ mr_pc[i] = "ready"
    /\ mr_pc' = [mr_pc EXCEPT ![i] = "running"]
    /\ UNCHANGED <<mr_new, mr_self, mr_engine, mr_ret>>
    /\ OnlyRuns

\* the engine's run of run i ends, with a result or an exception
RunsEngineEnds(i) ==
    /\ mr_pc[i] = "running"
    /\ \E e \in RunAnswers(mr_self) : mr_engine' = [mr_engine EXCEPT ![i] = e]
    /\ mr_pc' = [mr_pc EXCEPT ![i] = "ended"]
    /\ UNCHANGED <<mr_new, mr_self, mr_ret>>
    /\ OnlyRuns

\* the rest of the run method of run i
RunsFinish(i) ==
    /\ mr_pc[i] = "ended"
    /\ mr_self' = FacadeRun(mr_self, mr_engine[i]).self
    /\ mr_ret' = [mr_ret EXCEPT ![i] = FacadeRun(mr_self, mr_engine[i]).ret]
    /\ mr_pc' = [mr_pc EXCEPT ![i] = "done"]
    /\ UNCHANGED <<mr_new, mr_engine>>
    /\ OnlyRuns

RunsNext ==
    \E i \in Runs :
        \/ RunsStart(i)
        \/ RunsEngineEnds(i)
        \/ RunsFinish(i)

(***************************************************************************)
(* One run of an agent: Agent(...) of agent.py 20-24, coordinator.py 29-32 *)
(* and multi_agent.py 56, 112, 170, 235, 307, and the requests its run     *)
(* makes to the completion engine                                          *)
(***************************************************************************)
SpecializedAgents ==
    {"flight_agent", "hotel_agent", "restaurant_agent", "activity_agent", "weather_agent"}

Agents == {"agent", "travel_coordinator"} \cup SpecializedAgents

\* the retries an Agent gets when its constructor is given none
DefaultRetries == 1

\* a variant with a large number of retries for every agent
RetriesTen(a) == 10

\* agent.py line 23: retries=2; the six other constructors pass no retries
Retries(a) == IF a = "agent" THEN 2 ELSE DefaultRetries

\* the text the facade that ran the agent puts before the exception's
ErrorPrefixOf(a) ==
    IF a = "agent" THEN "Agent execution failed: "
    ELSE "Error in multi-agent travel planning: "

LoopInit ==
    /\ rt_agent \in Agents
    /\ rt_pc = "request"
    /\ rt_retries = 0
    /\ rt_requests = 0
    /\ rt_ret = NoReturn

\* the run sends a request to the completion engine, unless its limit of
\* requests is used up
LoopRequest ==
    /\ rt_pc = "request"
    /\ IF rt_requests < MaxRequests
       THEN /\ rt_requests' = rt_requests + 1
            /\ rt_pc' = "waiting"
            /\ UNCHANGED rt_ret
       ELSE /\ rt_ret' = Raise("pydantic_ai.UsageLimitExceeded")
            /\ rt_pc' = "ended"
            /\ UNCHANGED rt_requests
    /\ UNCHANGED <<rt_agent, rt_retries>>
    /\ OnlyLoop

\* the engine answers with an output that validates against output_type
LoopOutput ==
    /\ rt_pc = "waiting"
    /\ rt_ret' = Ok(<< <<"output of", rt_agent>>, <<"messages json">> >>)
    /\ rt_pc' = "ended"
    /\ UNCHANGED <<rt_agent, rt_retries, rt_requests>>
    /\ OnlyLoop

\* the engine answers with an output that does not validate: the run asks
\* again while retries are left and gives up after them
LoopInvalidOutput ==
    /\ rt_pc = "waiting"
    /\ IF rt_retries < Retries(rt_agent)
       THEN /\ rt_retries' = rt_retries + 1
            /\ rt_pc' = "request"
            /\ UNCHANGED rt_ret
       ELSE /\ rt_ret' = Raise("pydantic_ai.UnexpectedModelBehavior")
            /\ rt_pc' = "ended"
            /\ UNCHANGED rt_retries
    /\ UNCHANGED <<rt_agent, rt_requests>>
    /\ OnlyLoop

\* the engine answers with tool calls; the tools return, or one of them
\* raises and ends the run
LoopToolCalls ==
    /\ rt_pc = "waiting"
    /\ \/ rt_pc' = "request" /\ UNCHANGED rt_ret
       \/ rt_pc' = "ended" /\ rt_ret' = Raise("googlemaps.TransportError")
    /\ UNCHANGED <<rt_agent, rt_retries, rt_requests>>
    /\ OnlyLoop

\* the request to the engine fails
LoopEngineFails ==
    /\ rt_pc = "waiting"
    /\ rt_ret' = Raise("pydantic_ai.ModelHTTPError")
    /\ rt_pc' = "ended"
    /\ UNCHANGED <<rt_agent, rt_retries, rt_requests>>
    /\ OnlyLoop

\* agent.py 235-240 and coordinator.py 219-239: the run method returns the
\* response, or the error string for the exception that ended the run
LoopFacadeReturns ==
    /\ rt_pc = "ended"
    /\ rt_ret' = ExceptException(rt_ret, ErrorPrefixOf(rt_agent))
    /\ rt_pc' = "done"
    /\ UNCHANGED <<rt_agent, rt_retries, rt_requests>>
    /\ OnlyLoop

LoopNext ==
    \/ LoopRequest
    \/ LoopOutput
    \/ LoopInvalidOutput
    \/ LoopToolCalls
    \/ LoopEngineFails
    \/ LoopFacadeReturns

(***************************************************************************)
(* agent/tracer.py: covert_to_trace as a function, and several calls of it *)
(***************************************************************************)
\* lines 30-31: the records of the parts of one turn, or the exception of
\* the first part that has no record
RECURSIVE ConvertParts(_, _)
ConvertParts(parts, done) ==
    IF parts = <<>> THEN [raised |-> FALSE, value |-> done]
    ELSE IF convert_to_json(Head(parts)).raised THEN convert_to_json(Head(parts))
    ELSE ConvertParts(Tail(parts), Append(done, convert_to_json(Head(parts)).value))

\* lines 28-32: the spans of the turns from turn i + 1 on
RECURSIVE SpansFrom(_, _, _)
SpansFrom(msgs, i, done) ==
    IF i = Len(msgs) THEN [kind |-> "returned", spans |-> done]
    ELSE IF ConvertParts(msgs[i + 1], <<>>).raised
    THEN [kind |-> "raised", exc |-> ConvertParts(msgs[i + 1], <<>>).exc]
    ELSE SpansFrom(msgs, i + 1,
                   Append(done, [span_id |-> i,
                                 messages |-> ConvertParts(msgs[i + 1], <<>>).value]))

\* lines 26-34
covert_to_trace(msgs) == SpansFrom(msgs, 0, <<>>)

\* a variant whose list of spans lives at module level and is never emptied
TracerCallModuleSpans(state, msgs) ==
    [state |-> IF covert_to_trace(msgs).kind = "returned"
               THEN state \o covert_to_trace(msgs).spans ELSE state,
     messages |-> msgs,
     ret |-> IF covert_to_trace(msgs).kind = "returned"
             THEN [kind |-> "returned", spans |-> state \o covert_to_trace(msgs).spans]
             ELSE covert_to_trace(msgs)]

\* one call: what the module keeps afterwards (tracer.py has no module-level
\* name besides its two functions; spans is a local of the call), the
\* argument afterwards (no statement assigns to it or to a part), and the
\* result
TracerCall(state, msgs) ==
    [state |-> state, messages |-> msgs, ret |-> covert_to_trace(msgs)]

\* the arguments of the calls: a conversation of no turn, of one turn with
\* one part of any class, and of an empty turn before the model's text
CallInputs ==
    {<<>>} \cup { << <<p>> >> : p \in AllParts }
    \cup { << <<>>, <<p>> >> : p \in {q \in AllParts : q.cls = "TextPart"} }

CallsInit ==
    /\ ct_args \in [1..MaxCalls -> CallInputs]
    /\ ct_state = <<>>
    /\ ct_n = 0
    /\ ct_rets = <<>>

\* the next call of covert_to_trace
CallTracer ==
    /\ ct_n < MaxCalls
    /\ ct_n' = ct_n + 1
    /\ ct_state' = TracerCall(ct_state, ct_args[ct_n + 1]).state
    /\ ct_args' = [ct_args EXCEPT ![ct_n + 1] =
                      TracerCall(ct_state, ct_args[ct_n + 1]).messages]
    /\ ct_rets' = Append(ct_rets, TracerCall(ct_state, ct_args[ct_n + 1]).ret)
    /\ OnlyCalls

CallsNext == CallTracer

(***************************************************************************)
(* agent/coordinator.py: rendering the plan of a completed run             *)
(***************************************************************************)
\* a variant that takes the flight record out of the plan while rendering it
RenderTakesFlights(plan) ==
    [plan |-> [plan EXCEPT !.flight_recommendations = NoneV],
     report |-> _format_travel_plan(plan)]

\* lines 241-349: the plan after rendering and the report. Every access is
\* plan.get(...), plan[...], iteration or a slice; nothing is assigned,
\* popped or sorted
Render(plan) == [plan |-> plan, report |-> _format_travel_plan(plan)]

RenderInit ==
    /\ rp_plan \in Plans
    /\ rp_reports = <<>>

Call_format_travel_plan ==
    /\ Len(rp_reports) < MaxRenders
    /\ rp_plan' = Render(rp_plan).plan
    /\ rp_reports' = Append(rp_reports, Render(rp_plan).report)
    /\ OnlyRender

RenderNext == Call_format_travel_plan

(***************************************************************************)
(* Specifications                                                          *)
(***************************************************************************)
\* the variables of a component that is not running
TraceIdle ==
    /\ messages = <<>>
    /\ tr_pc = "idle"
    /\ tr_i = 0
    /\ tr_j = 0
    /\ span = <<>>
    /\ spans = <<>>
    /\ tr_ret = NoReturn

ToolIdle ==
    /\ call = [tool |-> "none"]
    /\ tool_ret = NoReturn

SaIdle ==
    /\ sa_call = [tool |-> "none"]
    /\ sa_ret = NoReturn

DelegIdle ==
    /\ d_call = [op |-> "none"]
    /\ d_pc = "idle"
    /\ d_log = <<>>
    /\ d_run = NoReturn
    /\ d_ret = NoReturn

FacadeIdle ==
    /\ f_env = {}
    /\ f_req = FALSE
    /\ f_pc = "idle"
    /\ f_mode = "none"
    /\ f_info = NoInfo
    /\ f_engine = NoReturn
    /\ f_ret = NoReturn

CoordIdle ==
    /\ co_arg = TheDeps
    /\ co_self = NoObject
    /\ co_ctx = NoContext
    /\ co_pc = "idle"
    /\ co_events = <<>>
    /\ co_pending = {}
    /\ co_out = "none"

SectionIdle ==
    /\ fs_data = NoneV
    /\ fs_out = NoReturn

MainIdle ==
    /\ m_env = {}
    /\ m_args = NoArgs
    /\ m_pc = "idle"
    /\ m_stdout = <<>>
    /\ m_exit = NoReturn
RunsIdle ==
    /\ mr_new = NoObject
    /\ mr_self = NoObject
    /\ mr_pc = <<>>
    /\ mr_engine = <<>>
    /\ mr_ret = <<>>
LoopIdle ==
    /\ rt_agent = "none"
    /\ rt_pc = "idle"
    /\ rt_retries = 0
    /\ rt_requests = 0
    /\ rt_ret = NoReturn
CallsIdle ==
    /\ ct_args = <<>>
    /\ ct_state = <<>>
    /\ ct_n = 0
    /\ ct_rets = <<>>
RenderIdle ==
    /\ rp_plan = NoneV
    /\ rp_reports = <<>>

TraceNext ==
    \/ TraceStart
    \/ TraceNextTurn
    \/ TraceConvertPart
    \/ TraceConvertRaises
    \/ TraceAppendSpan
    \/ TraceReturn

\* one call of covert_to_trace on any conversation
InitTrace ==
    TraceInit /\ ToolIdle /\ SaIdle /\ DelegIdle /\ FacadeIdle /\ CoordIdle /\ SectionIdle
    /\ MainIdle
    /\ RunsIdle
    /\ LoopIdle
    /\ CallsIdle
    /\ RenderIdle
SpecTrace == InitTrace /\ [][TraceNext]_vars

\* one invocation of any tool function with any answer of its provider
InitTools ==
    ToolInit /\ TraceIdle /\ SaIdle /\ DelegIdle /\ FacadeIdle /\ CoordIdle /\ SectionIdle
    /\ MainIdle
    /\ RunsIdle
    /\ LoopIdle
    /\ CallsIdle
    /\ RenderIdle
SpecTools == InitTools /\ [][ToolNext]_vars

\* one invocation of any specialized agent's tool with any provider answers
InitSa ==
    SaInit /\ TraceIdle /\ ToolIdle /\ DelegIdle /\ FacadeIdle /\ CoordIdle /\ SectionIdle
    /\ MainIdle
    /\ RunsIdle
    /\ LoopIdle
    /\ CallsIdle
    /\ RenderIdle
SpecSa == InitSa /\ [][SaNext]_vars

\* one delegation operation of the coordinator, with any end of the run of
\* its specialized agent
InitDeleg ==
    DelegInit /\ TraceIdle /\ ToolIdle /\ SaIdle /\ FacadeIdle /\ CoordIdle /\ SectionIdle
    /\ MainIdle
    /\ RunsIdle
    /\ LoopIdle
    /\ CallsIdle
    /\ RenderIdle
SpecDeleg == InitDeleg /\ [][DelegNext]_vars

\* one process: import, construction of the facade in the requested mode,
\* and one run(query) with any end of the completion engine's run
InitFacade ==
    FacadeInit /\ TraceIdle /\ ToolIdle /\ SaIdle /\ DelegIdle /\ CoordIdle /\ SectionIdle
    /\ MainIdle
    /\ RunsIdle
    /\ LoopIdle
    /\ CallsIdle
    /\ RenderIdle
SpecFacade == InitFacade /\ [][FacadeNext]_vars

\* one MultiAgentTravelAgent and one run of its coordinator, with any
\* choice of delegation operations by the completion engine
InitCoord ==
    CoordInit /\ TraceIdle /\ ToolIdle /\ SaIdle /\ DelegIdle /\ FacadeIdle /\ SectionIdle
    /\ MainIdle
    /\ RunsIdle
    /\ LoopIdle
    /\ CallsIdle
    /\ RenderIdle
SpecCoord == InitCoord /\ [][CoordNext]_vars

\* one call of _format_section on any section data
InitSection ==
    SectionInit /\ TraceIdle /\ ToolIdle /\ SaIdle /\ DelegIdle /\ FacadeIdle /\ CoordIdle
    /\ MainIdle
    /\ RunsIdle
    /\ LoopIdle
    /\ CallsIdle
    /\ RenderIdle
SpecSection == InitSection /\ [][SectionNext]_vars

\* one invocation of run_agent.py with any command line, environment and
\* end of the run
InitMain ==
    MainInit /\ TraceIdle /\ ToolIdle /\ SaIdle /\ DelegIdle /\ FacadeIdle /\ CoordIdle
    /\ SectionIdle
    /\ RunsIdle
    /\ LoopIdle
    /\ CallsIdle
    /\ RenderIdle
SpecMain == InitMain /\ [][MainNext]_vars

\* several runs on one facade object, interleaved in any way
InitRuns ==
    RunsInit /\ TraceIdle /\ ToolIdle /\ SaIdle /\ DelegIdle /\ FacadeIdle /\ CoordIdle
    /\ SectionIdle /\ MainIdle
    /\ LoopIdle
    /\ CallsIdle
    /\ RenderIdle
SpecRuns == InitRuns /\ [][RunsNext]_vars

\* one run of any agent in which every call to a collaborator returns or
\* fails: a step that can be taken is taken
InitLoop ==
    LoopInit /\ TraceIdle /\ ToolIdle /\ SaIdle /\ DelegIdle /\ FacadeIdle /\ CoordIdle
    /\ SectionIdle /\ MainIdle /\ RunsIdle
    /\ CallsIdle
    /\ RenderIdle
SpecLoop == InitLoop /\ [][LoopNext]_vars /\ WF_vars(LoopNext)

\* several calls of covert_to_trace, one after the other, on any arguments
InitCalls ==
    CallsInit /\ TraceIdle /\ ToolIdle /\ SaIdle /\ DelegIdle /\ FacadeIdle /\ CoordIdle
    /\ SectionIdle /\ MainIdle /\ RunsIdle /\ LoopIdle
    /\ RenderIdle
SpecCalls == InitCalls /\ [][CallsNext]_vars

\* the plan of a completed run, rendered again and again
InitRender ==
    RenderInit /\ TraceIdle /\ ToolIdle /\ SaIdle /\ DelegIdle /\ FacadeIdle /\ CoordIdle
    /\ SectionIdle /\ MainIdle /\ RunsIdle /\ LoopIdle /\ CallsIdle
SpecRender == InitRender /\ [][RenderNext]_vars

(***************************************************************************)
(* Claims about the trace formatter                                        *)
(***************************************************************************)
HasUnknownPart(c) ==
    \E t \in 1..Len(c) : \E p \in 1..Len(c[t]) : c[t][p].cls \notin RecognizedParts

\* C1: whenever covert_to_trace returns, the number of spans equals the
\* number of input turns and the k-th span (counting from 0) has span_id k,
\* so the ids are exactly 0, 1, ..., n-1 in output order; this includes
\* the empty conversation and turns without parts.
C1_SpanPerTurn ==
    tr_ret.kind = "returned" =>
        /\ Len(tr_ret.spans) = Len(messages)
        /\ \A k \in 1..Len(tr_ret.spans) : tr_ret.spans[k].span_id = k - 1

\* C1 witness: a returned trace of two turns, one of them without parts.
C1_Witness ==
    /\ tr_ret.kind = "returned"
    /\ Len(messages) = 2
    /\ \E t \in 1..2 : messages[t] = <<>>
    /\ tr_ret.spans[2].span_id = 1

\* C2: a conversation holding a part outside the recognized set never
\* yields a span list: covert_to_trace does not return for it at any point,
\* and when the call has ended it has ended by raising ValueError, so
\* neither a trace without the unknown part nor the spans built before it
\* reach the caller.
C2_UnknownPartRaises ==
    HasUnknownPart(messages) =>
        /\ tr_ret.kind # "returned"
        /\ tr_pc = "done" => (tr_ret.kind = "raised" /\ tr_ret.exc.cls = "ValueError")

\* C2 witness: the call raised after a first span had already been built.
C2_Witness ==
    /\ tr_ret.kind = "raised"
    /\ Len(spans) = 1
    /\ Len(spans[1].messages) = 1


(***************************************************************************)
(* Claims about the single agent's tool functions                          *)
(***************************************************************************)
ToolDone == tool_ret.kind # "none"

\* the tools of agent.py that call an external provider
ProviderTools ==
    {"geocode_address", "reverse_geocode_coordinates", "get_directions",
     "get_current_weather", "get_weather_forecast", "get_current_location",
     "search_web", "validate_address", "find_places"}

HttpTools == {"get_current_weather", "get_weather_forecast", "get_current_location"}

\* the tools declared to return a mapping; the others return a list
MappingTools == HttpTools \cup {"validate_address"}

\* the provider call of the invocation fails: the client raises, or the
\* HTTP response is an error status or has a body that is not JSON
ProviderFailed(c) ==
    \/ c.p.kind = "raise"
    \/ /\ c.tool \in HttpTools
       /\ c.p.kind = "ok"
       /\ (c.p.value.status_code >= 400 \/ c.p.value.json.kind = "raise")

\* the value carries an error key: a mapping with the key, or a list of
\* exactly one such mapping
CarriesError(tool, v) ==
    IF tool \in MappingTools
    THEN "error" \in DOMAIN v
    ELSE Len(v) = 1 /\ "error" \in DOMAIN v[1]

\* C4: whenever the provider call of one of the nine provider-calling tools
\* fails (transport error, API error, bad response), the tool returns a
\* value carrying an error key and no exception leaves the tool.
C4_ProviderFailureIsErrorValue ==
    (ToolDone /\ call.tool \in ProviderTools /\ ProviderFailed(call)) =>
        /\ tool_ret.kind = "returned"
        /\ CarriesError(call.tool, tool_ret.value)

\* a non-empty location string that is not two comma-separated floats
Malformed(location) ==
    Truthy(location) /\ ParseLatLng(location[1]).kind = "raise"

\* C5: for every malformed "lat,lng" string, find_places ends by raising
\* the caller-input error to its caller (it neither returns an error value
\* nor searches without the location).
C5_MalformedLocationPropagates ==
    (ToolDone /\ call.tool = "find_places" /\ Malformed(call.location)) =>
        tool_ret.kind = "raised"

\* C6: get_current_weather and get_weather_forecast return the parsed body
\* unchanged when the provider answers with status 200, and exactly
\* {"error": "Weather API error: <status>"} for every other status.
C6_WeatherStatus ==
    (ToolDone /\ call.tool \in {"get_current_weather", "get_weather_forecast"}
              /\ call.p.kind = "ok") =>
        LET r == call.p.value IN
        /\ (r.status_code = 200 /\ r.json.kind = "ok") =>
               (tool_ret.kind = "returned" /\ tool_ret.value = r.json.value)
        /\ r.status_code # 200 =>
               /\ tool_ret.kind = "returned"
               /\ tool_ret.value = [error |-> <<"Weather API error: ", r.status_code>>]

\* C6 witness: the forecast tool has answered a 204 response, whose body
\* parses, with the error mapping.
C6_Witness ==
    /\ call.tool = "get_weather_forecast"
    /\ call.p.kind = "ok"
    /\ call.p.value.status_code = 204
    /\ call.p.value.json.kind = "ok"
    /\ tool_ret.kind = "returned"
    /\ tool_ret.value = [error |-> <<"Weather API error: ", 204>>]


(***************************************************************************)
(* Claims about the specialized agents' tools                              *)
(***************************************************************************)
SaDone == sa_ret.kind # "none"

\* what the provider answered to request req of invocation c
AnswerOf(req, c) ==
    CASE req.api = "gmaps.geocode" -> c.env.geocode
      [] req.api = "gmaps.directions" -> c.env.directions
      [] req.api = "tavily.search" -> c.env.search
      [] req.api = "GET currentConditions:lookup" -> c.env.current
      [] req.api = "GET forecast/days:lookup" -> c.env.forecast
      [] req.api = "gmaps.places" ->
           IF req.params[1][1] = "tourist attractions " THEN c.env.spots ELSE c.env.places

\* a provider call the invocation made has failed
SaProviderFailed ==
    \E k \in 1..Len(sa_ret.requests) : AnswerOf(sa_ret.requests[k], sa_call).kind = "raise"

\* C10: in the five specialized tools every failure of a provider call is
\* swallowed: whenever a provider call of the invocation has failed, the
\* tool still returns its result mapping (no provider failure leaves the
\* tool as an exception).
C10_ProviderFailureSwallowed ==
    (SaDone /\ SaProviderFailed) => sa_ret.kind = "returned"


(***************************************************************************)
(* Claims about the delegation operations                                  *)
(***************************************************************************)
\* C3: in every DelegationRecord a delegation operation returns, success
\* is false if and only if the output of the specialized agent's run is the
\* Failed variant.
C3_SuccessIffNotFailed ==
    d_ret.kind = "returned" =>
        (d_ret.value.success = FALSE <=> d_run.value.cls = "Failed")

\* C3 witness: the restaurant delegation has returned a record with success
\* false for a Failed output.
C3_Witness ==
    /\ d_call.op = "restaurant_search_delegate"
    /\ d_ret.kind = "returned"
    /\ d_run.value = AFailed
    /\ d_ret.value.success = FALSE

\* C9: a specialized agent's failure to produce a satisfactory result (its
\* run ending with the Failed output) never leaves the delegation operation
\* as an exception: the operation returns a record with the Failed variant
\* as result and success false; the operation raises only an exception that
\* the agent's run itself raised.
C9_FailedIsARecord ==
    /\ (d_pc = "done" /\ d_run.kind = "ok" /\ d_run.value.cls = "Failed") =>
           /\ d_ret.kind = "returned"
           /\ d_ret.value.result = d_run.value.fields
           /\ d_ret.value.success = FALSE
    /\ d_ret.kind = "raised" => (d_run.kind = "raise" /\ d_ret.exc = d_run.exc)

\* C9 witness: the hotel delegation has returned the record of a Failed run.
C9_Witness ==
    /\ d_call.op = "hotel_search_delegate"
    /\ d_pc = "done"
    /\ d_run = Ok(AFailed)
    /\ d_ret.kind = "returned"
    /\ d_ret.value.result = [reason |-> "nothing found"]

(***************************************************************************)
(* Claims about the facades                                                *)
(***************************************************************************)
\* an exception was raised while run(query) was executing: by run_sync, by
\* the rendering of the plan, or by the serialization of the history
RunFailed ==
    \/ f_engine.kind = "raise"
    \/ /\ f_engine.kind = "ok"
       /\ \/ f_engine.value.all_messages_json.kind = "raise"
          \/ /\ f_mode = "multi-agent"
             /\ _format_travel_plan(f_engine.value.output.fields).kind = "raise"

ErrorPrefixes == {"Agent execution failed: ", "Error in multi-agent travel planning: "}

\* the failure text the facades build: a fixed prefix and str(e)
IsErrorString(response) == Len(response) = 2 /\ response[1] \in ErrorPrefixes

\* C7: a facade run (TravelAgent.run or MultiAgentTravelAgent.run) never
\* raises. When an exception was raised during the run it returns the pair
\* of an error string and the empty trace; a non-empty trace is returned
\* only when nothing failed, together with the response that is not an
\* error string.
C7_RunNeverRaises ==
    f_pc = "done" =>
        /\ f_ret.kind = "returned"
        /\ RunFailed =>
              (IsErrorString(f_ret.value[1]) /\ f_ret.value[2] = <<>>)
        /\ f_ret.value[2] # <<>> =>
              (~RunFailed /\ ~IsErrorString(f_ret.value[1]))

\* both facades have caught an exception: here the multi-agent one, whose
\* run_sync succeeded and whose rendering of the plan raised
C7_Witness ==
    /\ f_pc = "done"
    /\ f_mode = "multi-agent"
    /\ f_engine.kind = "ok"
    /\ _format_travel_plan(f_engine.value.output.fields).kind = "raise"
    /\ f_ret.kind = "returned"
    /\ f_ret.value[2] = <<>>

DomainAgent(op) ==
    CASE op = "flight_search_delegate" -> "flight_agent"
      [] op = "hotel_search_delegate" -> "hotel_agent"
      [] op = "restaurant_search_delegate" -> "restaurant_agent"
      [] op = "activity_search_delegate" -> "activity_agent"
      [] op = "weather_forecast_delegate" -> "weather_agent"

\* C11: a delegation operation starts at most one run of a specialized
\* agent, and that run is of the agent of its domain; once it has reached
\* its await it has started exactly one. It ends only after that run has
\* ended, and when it returns, the record has exactly the keys agent,
\* query, result and success, agent naming the agent whose run was started.
C11_OneAgentOnceThenRecord ==
    /\ Len(d_log) <= 1
    /\ d_pc \in {"awaiting", "resumed", "done"} =>
          (Len(d_log) = 1 /\ d_log[1].agent = DomainAgent(d_call.op))
    /\ d_ret # NoReturn => d_run # NoReturn
    /\ d_ret.kind = "returned" =>
          /\ d_run.kind = "ok"
          /\ DOMAIN d_ret.value = {"agent", "query", "result", "success"}
          /\ d_ret.value.agent = d_log[1].agent

\* the activity operation has awaited activity_agent and returned its record
C11_Witness ==
    /\ d_pc = "done"
    /\ d_call.op = "activity_search_delegate"
    /\ Len(d_log) = 1
    /\ d_log[1].agent = "activity_agent"
    /\ d_ret.kind = "returned"
    /\ d_ret.value.agent = "activity_agent"

(***************************************************************************)
(* Claims about a run of the coordinator                                   *)
(***************************************************************************)
\* C12: in a run of the coordinator no flight, hotel, restaurant or
\* activity delegation is invoked unless the weather delegation was invoked
\* earlier, and the run ends with its TravelPlan only when every delegation
\* it invoked has returned.
C12_WeatherFirstThenSynthesize ==
    /\ \A i \in Invocations :
          co_events[i].op # "weather_forecast_delegate" =>
             \E j \in 1..(i - 1) :
                /\ co_events[j].ev = "invoke"
                /\ co_events[j].op = "weather_forecast_delegate"
    /\ co_pc = "done" => co_pending = {}

(***************************************************************************)
(* Claims about the rendered report                                        *)
(***************************************************************************)
\* a run of the multi-agent facade has returned the rendered plan
Rendered ==
    /\ f_pc = "done"
    /\ f_mode = "multi-agent"
    /\ f_ret.kind = "returned"
    /\ ~IsErrorString(f_ret.value[1])

\* the sections of the rendered report, after its title
ReportSections == Tail(f_ret.value[1])

\* the place of a section in the fixed order
SectionRank(name) ==
    CASE name = "overview" -> 1
      [] name = "flights" -> 2
      [] name = "hotels" -> 3
      [] name = "restaurants" -> 4
      [] name = "activities" -> 5
      [] name = "weather" -> 6
      [] name = "itinerary" -> 7
      [] name = "cost" -> 8
      [] name = "footer" -> 9

\* C13: the rendered report of every TravelPlan starts with the overview
\* and ends with the footer, and the sections it has appear in the order
\* overview, flights, hotels, restaurants, activities, weather, itinerary,
\* cost, footer, none of them twice.
C13_FixedSectionOrder ==
    Rendered =>
        /\ Head(ReportSections).section = "overview"
        /\ ReportSections[Len(ReportSections)].section = "footer"
        /\ \A i, j \in 1..Len(ReportSections) :
              i < j => SectionRank(ReportSections[i].section)
                          < SectionRank(ReportSections[j].section)

\* a plan with all nine sections has been rendered
C13_Witness ==
    /\ Rendered
    /\ Len(ReportSections) = 9

(***************************************************************************)
(* C14: truncation of the raw records in a section                         *)
(***************************************************************************)
\* a "- a b" line of a place record or of a web-search result
IsItemLine(l) == Len(l) = 3 /\ l[1] = "- "

\* a "- item" line of a section given as a list
IsListLine(l) == Len(l) = 2 /\ l[1] = "- "

PlaceHeading(key) == <<"**", "title", key, ":**">>
WebHeading == <<"**Web Search Results:**">>

\* the item lines of the text from line k up to the next other line
RECURSIVE ItemsAfter(_, _)
ItemsAfter(lines, k) ==
    IF k > Len(lines) THEN <<>>
    ELSE IF ~IsItemLine(lines[k]) THEN <<>>
    ELSE <<lines[k]>> \o ItemsAfter(lines, k + 1)

\* the positions of a heading in the text
HeadingAt(lines, heading) == { k \in 1..Len(lines) : lines[k] = heading }

\* the heading an item line stands under
HeadingOf(lines, k) ==
    lines[CHOOSE j \in 1..(k - 1) :
            /\ ~IsItemLine(lines[j])
            /\ \A i \in (j + 1)..(k - 1) : IsItemLine(lines[i])]

\* the number of place records and of web-search results a text shows
PlacesShown(lines) ==
    Cardinality({ k \in 1..Len(lines) :
                    /\ IsItemLine(lines[k])
                    /\ HeadingOf(lines, k) \in { PlaceHeading(key) : key \in PlacesKeys } })
    + Cardinality({ k \in 1..Len(lines) : IsListLine(lines[k]) })
WebShown(lines) ==
    Cardinality({ k \in 1..Len(lines) :
                    IsItemLine(lines[k]) /\ HeadingOf(lines, k) = WebHeading })

SectionReturned == fs_out # NoReturn /\ fs_out.kind = "ok"

RECURSIVE FirstThree(_, _, _)
FirstThree(records, k, n) ==
    IF k > n \/ k > Len(records) THEN <<>>
    ELSE << <<"- ", records[k].v[1][2], records[k].v[2][2]>> >>
         \o FirstThree(records, k + 1, n)

\* a list of place records under a places key is shown once, as its first
\* three records in input order
PlacesKeyShown(key) ==
    (HasKey(fs_data, key) /\ DictGet(fs_data, key, NoneV).v # <<>>) =>
        /\ Cardinality(HeadingAt(fs_out.value, PlaceHeading(key))) = 1
        /\ \A k \in HeadingAt(fs_out.value, PlaceHeading(key)) :
             ItemsAfter(fs_out.value, k + 1)
               = FirstThree(DictGet(fs_data, key, NoneV).v, 1, 3)

\* the results of the web search are shown once, as the first three
WebResultsShown ==
    (HasKey(fs_data, "web_search_results")
       /\ DictGet(fs_data, "web_search_results", NoneV).v[1][2].v # <<>>) =>
        /\ Cardinality(HeadingAt(fs_out.value, WebHeading)) = 1
        /\ \A k \in HeadingAt(fs_out.value, WebHeading) :
             ItemsAfter(fs_out.value, k + 1)
               = FirstThree(DictGet(fs_data, "web_search_results", NoneV).v[1][2].v,
                            1, 3)

RunCompleted == f_pc = "done" /\ ~RunFailed

\* C15 as stated: once a run has completed, covert_to_trace has been applied
\* to the run's message history and has returned its spans
C15_SpansBuiltAfterRun ==
    RunCompleted => (tr_ret.kind = "returned" /\ tr_pc = "done")

(***************************************************************************)
(* C16: the outbound calls of one tool invocation                          *)
(***************************************************************************)
\* one invocation of any tool function, of the single agent or of a
\* specialized agent
InitAllTools ==
    /\ \/ ToolInit /\ SaIdle
       \/ SaInit /\ ToolIdle
    /\ TraceIdle /\ DelegIdle /\ FacadeIdle /\ CoordIdle /\ SectionIdle /\ MainIdle
    /\ RunsIdle
    /\ LoopIdle
    /\ CallsIdle
    /\ RenderIdle
AllToolsNext == ToolNext \/ SaNext
SpecAllTools == InitAllTools /\ [][AllToolsNext]_vars

\* the outbound calls of the invocation that has ended
CallsMade ==
    IF ToolDone THEN Len(tool_ret.requests)
    ELSE IF SaDone THEN Len(sa_ret.requests)
    ELSE 0

\* the tool that was invoked
InvokedTool == IF sa_call.tool = "none" THEN call.tool ELSE sa_call.tool

WeatherTools == {"get_current_weather", "get_weather_forecast", "weather_forecast"}

\* C16 as stated: an invocation makes at most one outbound call, a weather
\* tool at most two
C16_OneCallTwoForWeather ==
    (ToolDone \/ SaDone) =>
        CallsMade <= (IF InvokedTool \in WeatherTools THEN 2 ELSE 1)

\* the number of outbound calls the tool may make
CallBound(tool) ==
    CASE tool = "flight_search" -> 2
      [] tool \in {"hotel_search", "restaurant_search"} -> 3
      [] tool \in {"activity_search", "weather_forecast"} -> 4
      [] OTHER -> 1

\* C16, amended: every invocation of a tool function of the single agent
\* makes at most one outbound call; a tool of a specialized agent makes at
\* most 2 (flight_search), 3 (hotel_search, restaurant_search) or 4
\* (activity_search, weather_forecast); no invocation exceeds its bound on
\* any path, including the paths that raise
C16_CallsWithinBound ==
    (ToolDone \/ SaDone) => CallsMade <= CallBound(InvokedTool)

\* an invocation of activity_search has made four outbound calls
C16_Witness ==
    /\ SaDone
    /\ sa_call.tool = "activity_search"
    /\ CallsMade = 4

(***************************************************************************)
(* C17: a non-200 answer of a weather endpoint in weather_forecast         *)
(***************************************************************************)
\* weather_forecast has returned its mapping with the two weather fields
WeatherForecastReturned ==
    /\ SaDone
    /\ sa_call.tool = "weather_forecast"
    /\ sa_ret.kind = "returned"
    /\ "current_weather" \in DOMAIN sa_ret.value

\* the endpoint answered with a status other than 200
Non200(answer) == answer.kind = "ok" /\ answer.value.status_code # HTTP_OK

WeatherApiError(status) == [error |-> <<"Weather API error: ", status>>]

\* C17 as stated: in the result of weather_forecast, the field of an
\* endpoint that answered with a status other than 200 is
\* {"error": "Weather API error: <status>"}
C17_Non200IsWeatherError ==
    WeatherForecastReturned =>
        /\ Non200(sa_call.env.current) =>
             sa_ret.value.current_weather
               = WeatherApiError(sa_call.env.current.value.status_code)
        /\ (sa_call.env.current.kind = "ok" /\ Non200(sa_call.env.forecast)) =>
             sa_ret.value.forecast
               = WeatherApiError(sa_call.env.forecast.value.status_code)

(***************************************************************************)
(* C18: geocode, places query, web search in hotel_search,                 *)
(* restaurant_search and activity_search                                   *)
(***************************************************************************)
PlaceSearchTools == {"hotel_search", "restaurant_search", "activity_search"}

\* the radius the claim gives for the places query of a tool
ClaimedRadius(tool) == IF tool = "activity_search" THEN 8000 ELSE 5000

\* the places fields of the result of a tool
PlacesOf(tool, value) ==
    CASE tool = "hotel_search" -> <<value.google_places_hotels>>
      [] tool = "restaurant_search" -> <<value.google_places_restaurants>>
      [] tool = "activity_search" ->
           <<value.google_places_attractions, value.google_places_tourist_spots>>

\* geocoding answered with at least one result
GeocodeFound(env) == env.geocode.kind = "ok" /\ env.geocode.value # <<>>

\* C18 as stated: every invocation of the three tools first geocodes, then
\* queries places only when geocoding found a result, within the fixed
\* radius around the resolved coordinates, then searches the web on every
\* invocation, then returns; without a geocoding result the places field is
\* the empty list
C18_GeocodePlacesWebReturn ==
    (SaDone /\ sa_call.tool \in PlaceSearchTools) =>
        /\ sa_ret.requests[1].api = "gmaps.geocode"
        /\ sa_ret.requests[Len(sa_ret.requests)].api = "tavily.search"
        /\ \A k \in 2..(Len(sa_ret.requests) - 1) :
             /\ sa_ret.requests[k].api = "gmaps.places"
             /\ GeocodeFound(sa_call.env)
             /\ sa_ret.requests[k].params[2] = LatLng(sa_call.env.geocode.value)
             /\ sa_ret.requests[k].params[3] = ClaimedRadius(sa_call.tool)
        /\ GeocodeFound(sa_call.env) => Len(sa_ret.requests) > 2
        /\ sa_ret.kind = "returned"
        /\ ~GeocodeFound(sa_call.env) =>
             \A k \in 1..Len(PlacesOf(sa_call.tool, sa_ret.value)) :
                PlacesOf(sa_call.tool, sa_ret.value)[k] = <<>>

\* the same on the invocations in which no provider call raises
C18_HoldsWithoutProviderFailure ==
    (SaDone /\ sa_call.tool \in PlaceSearchTools /\ sa_ret.kind = "returned") =>
        C18_GeocodePlacesWebReturn

(***************************************************************************)
(* C19: the output of the process entry point                              *)
(***************************************************************************)
MainExited == m_pc = "exited"

\* C19 as stated: every invocation of the entry point with a query and a
\* model prints exactly one output, the response or an error string, and no
\* exception escapes it, a failure to load the environment included
C19_OneOutputNoEscape ==
    MainExited =>
        /\ m_exit.kind = "exit"
        /\ Len(m_stdout) = 1

\* what holds of the code: an invocation whose import and whose loading of
\* the environment went through prints exactly one output, and no
\* exception escapes it
C19_OneOutputOnceLoaded ==
    (MainExited /\ m_env = Credentials /\ load_dotenv(m_args.env)) =>
        (m_exit.kind = "exit" /\ Len(m_stdout) = 1)

(***************************************************************************)
(* C20: the bundle of dependencies within one run                          *)
(***************************************************************************)
\* the facade, the run context and every invocation of a specialized agent
\* hold the bundle the facade was constructed with
SameBundleEverywhere ==
    /\ co_self # NoObject => co_self.deps = co_arg
    /\ co_ctx # NoContext => co_ctx.deps = co_arg
    /\ \A i \in 1..Len(co_events) : co_events[i].deps = co_arg

\* no step changes the bundle or one of its two client handles
BundleKept ==
    /\ co_arg'.gmaps = co_arg.gmaps
    /\ co_arg'.tavily_client = co_arg.tavily_client
    /\ co_self # NoObject => co_self'.deps = co_self.deps

\* C20: within one run the bundle of dependencies is never modified after
\* construction (its two client handles are the same after every step), and
\* every specialized agent the coordinator invokes receives the very bundle
\* the facade was constructed with
C20_BundleSharedAndUnchanged ==
    [] SameBundleEverywhere /\ [][BundleKept]_vars

\* two specialized agents were invoked within one run of a facade that was
\* constructed with the second bundle, and the plan was produced
C20_Witness ==
    /\ co_pc = "done"
    /\ co_arg # TheDeps
    /\ Cardinality({ co_events[i].agent : i \in Invocations }) = 2

(***************************************************************************)
(* C21: runs on one facade share no mutable state                          *)
(***************************************************************************)
\* what the run would return alone, on the facade as constructed
RunAlone(engine) == FacadeRun(mr_new, engine).ret

EachRunAsAlone ==
    \A i \in DOMAIN mr_pc :
        mr_pc[i] = "done" => mr_ret[i] = RunAlone(mr_engine[i])

LoopDone ==
    /\ rt_pc = "done"
    /\ rt_ret.kind = "returned"
    /\ \/ rt_ret.value[2] # <<>> /\ ~IsErrorString(rt_ret.value[1])
       \/ rt_ret.value[2] = <<>> /\ IsErrorString(rt_ret.value[1])

\* the retries of the agent stay within a small fixed number: 2 for the
\* single agent, 1 for the coordinator and the specialized agents
RetriesBounded ==
    rt_retries <= (IF rt_agent = "agent" THEN 2 ELSE 1)

\* C22: every agent retries the completion engine at most a small fixed
\* number of times, and a run whose collaborator calls each return or fail
\* eventually ends in exactly one of two outcomes, a completed response or
\* an error string for the exception that was caught
C22_BoundedRetriesAndTermination ==
    [] RetriesBounded /\ [] (rt_pc = "done" => LoopDone) /\ <> LoopDone

\* the single agent has used both its retries and the run has ended with
\* the error string
C22_Witness ==
    /\ rt_agent = "agent"
    /\ rt_retries = 2
    /\ LoopDone
    /\ IsErrorString(rt_ret.value[1])

(***************************************************************************)
(* C23: the tagged record of a part, and the records of a span             *)
(***************************************************************************)
\* the tag of the variant of a part class
TagOf(cls) ==
    CASE cls = "SystemPromptPart" -> "system_prompt"
      [] cls = "ToolCallPart" -> "tool_call"
      [] cls = "TextPart" -> "text"
      [] cls = "UserPromptPart" -> "user_input"
      [] cls = "ToolReturnPart" -> "tool_return"

\* the record under the tag carries a role label and the payload of the part
CarriesPayload(part, body) ==
    /\ "role" \in DOMAIN body
    /\ CASE part.cls = "ToolCallPart" ->
              /\ DOMAIN body = {"role", "name", "arguments"}
              /\ body.name = part.tool_name
              /\ body.arguments = part.args
         [] part.cls = "ToolReturnPart" ->
              /\ DOMAIN body = {"role", "name", "content"}
              /\ body.name = part.tool_name
              /\ body.content = part.content
         [] OTHER ->
              /\ DOMAIN body = {"role", "content"}
              /\ body.content = part.content

\* the record is the tagged record of the part
IsRecordOf(part, record) ==
    /\ DOMAIN record = {TagOf(part.cls)}
    /\ CarriesPayload(part, record[TagOf(part.cls)])

\* C23: in a returned trace every span holds one record per part of its
\* turn, in the order of the parts, and the record of a part has exactly
\* one key, the tag of the part's variant, under which it carries a role
\* label and the payload of the part
C23_TaggedRecordsInOrder ==
    tr_ret.kind = "returned" =>
        \A t \in 1..Len(messages) :
            /\ Len(tr_ret.spans[t].messages) = Len(messages[t])
            /\ \A k \in 1..Len(messages[t]) :
                 IsRecordOf(messages[t][k], tr_ret.spans[t].messages[k])

\* a returned trace of one turn holding the model's text after a tool's
\* return
C23_Witness ==
    /\ tr_ret.kind = "returned"
    /\ Len(messages) = 1
    /\ Len(messages[1]) = 2
    /\ messages[1][1].cls = "ToolReturnPart"
    /\ messages[1][2].cls = "TextPart"
    /\ "text" \in DOMAIN tr_ret.spans[1].messages[2]

(***************************************************************************)
(* C24: covert_to_trace is a pure, stateless transform                     *)
(***************************************************************************)
\* calls made on equal arguments have returned equal results
EqualInEqualOut ==
    \A i \in 1..ct_n : \A j \in 1..ct_n :
        ct_args[i] = ct_args[j] => ct_rets[i] = ct_rets[j]

\* a call changes neither its argument nor anything kept between calls
CallIsPure == ct_args' = ct_args /\ ct_state' = ct_state

C24_StepsAgreeWithFunction ==
    tr_pc = "done" => tr_ret = covert_to_trace(messages)

(***************************************************************************)
(* C25: rendering does not change the plan                                 *)
(***************************************************************************)
\* every report rendered so far is the first one
SameReportEachTime ==
    \A k \in 1..Len(rp_reports) : rp_reports[k] = rp_reports[1]

Domains ==
    << <<"flights", "flight_recommendations", "Flight Agent",
         "*No flight recommendations available*">>,
       <<"hotels", "hotel_recommendations", "Hotel Agent",
         "*No hotel recommendations available*">>,
       <<"restaurants", "restaurant_recommendations", "Restaurant Agent",
         "*No restaurant recommendations available*">>,
       <<"activities", "activity_recommendations", "Activity Agent",
         "*No activity recommendations available*">>,
       <<"weather", "weather_forecast", "Weather Agent",
         "*No weather information available*">> >>

\* the entries of a report under the heading of a domain
EntriesOf(report, name) ==
    { k \in 2..Len(report) : report[k].section = name }

\* the record's success flag is set
Succeeded(record) ==
    record.t = "dict" /\ TruthyV(DictGet(record, "success", NoneV))

\* what the report shows for one domain agrees with the record the plan holds
DomainShown(report, record, name, label, placeholder) ==
    /\ (EntriesOf(report, name) # {}) <=> TruthyV(record)
    /\ Cardinality(EntriesOf(report, name)) <= 1
    /\ \A k \in EntriesOf(report, name) :
          IF Succeeded(record)
          THEN /\ DOMAIN report[k] = {"section", "by", "body"}
               /\ report[k].by = label
               /\ Ok(report[k].body) = _format_section(DictGet(record, "result", DictV(<<>>)))
          ELSE report[k] = [section |-> name, placeholder |-> placeholder]

\* C27: in a rendered report a domain section (flights, hotels, restaurants,
\* activities, weather) appears if and only if the plan holds a non-empty
\* record for the domain; a mapping with a true success flag is shown with
\* the agent attribution and the formatted result, every other record only
\* with the fixed placeholder and none of its content
C27_SectionIffRecord ==
    \A n \in 1..Len(rp_reports) :
        rp_reports[n].kind = "ok" =>
            \A d \in 1..Len(Domains) :
                DomainShown(rp_reports[n].value, rp_plan[Domains[d][2]],
                            Domains[d][1], Domains[d][3], Domains[d][4])

\* a rendered report of a plan with a failed flight record, an empty activity
\* record, a weather record without a success flag and a hotel record that
\* succeeded
C27_Witness ==
    /\ Len(rp_reports) >= 1
    /\ rp_reports[1].kind = "ok"
    /\ TruthyV(rp_plan.flight_recommendations)
    /\ ~Succeeded(rp_plan.flight_recommendations)
    /\ rp_plan.activity_recommendations.t = "dict"
    /\ ~TruthyV(rp_plan.activity_recommendations)
    /\ TruthyV(rp_plan.weather_forecast)
    /\ ~HasKey(rp_plan.weather_forecast, "success")
    /\ Succeeded(rp_plan.hotel_recommendations)

(***************************************************************************)
(* C28: weather_forecast of the weather agent when the location is not     *)
(* found                                                                   *)
(***************************************************************************)
\* an invocation of the weather agent's tool has ended
WeatherForecastDone == SaDone /\ sa_call.tool = "weather_forecast"

\* geocoding answered with no result
GeocodeEmpty(env) == env.geocode.kind = "ok" /\ env.geocode.value = <<>>

\* the requests that follow the geocoding step
AfterGeocodeApis ==
    {"GET currentConditions:lookup", "GET forecast/days:lookup", "tavily.search"}

CouldNotFind(location) == [error |-> <<"Could not find location: ", location>>]

\* C28: when geocoding returns no result, weather_forecast of the weather
\* agent returns exactly the one-key mapping
\* {"error": "Could not find location: <location>"} and has issued no weather
\* HTTP request and no web search; a weather request or a web search is
\* issued only after the geocode request, and only when it found the location
C28_NoLocationNoRequests ==
    WeatherForecastDone =>
        /\ GeocodeEmpty(sa_call.env) =>
             /\ sa_ret.kind = "returned"
             /\ sa_ret.value = CouldNotFind(sa_call.location)
             /\ \A k \in 1..Len(sa_ret.requests) :
                    sa_ret.requests[k].api \notin AfterGeocodeApis
        /\ \A k \in 1..Len(sa_ret.requests) :
               sa_ret.requests[k].api \in AfterGeocodeApis =>
                   /\ GeocodeFound(sa_call.env)
                   /\ k > 1
                   /\ sa_ret.requests[1].api = "gmaps.geocode"

\* the tool has returned for a location geocoding did not find, after the
\* one geocode request
C28_Witness ==
    /\ WeatherForecastDone
    /\ GeocodeEmpty(sa_call.env)
    /\ sa_ret.kind = "returned"
    /\ Len(sa_ret.requests) = 1
    /\ sa_ret.requests[1].api = "gmaps.geocode"

(***************************************************************************)
(* C29: MultiAgentTravelAgent.run hands out the history of a run only      *)
(* with its report                                                         *)
(***************************************************************************)
\* MultiAgentTravelAgent.run has returned
MultiAgentRunDone == f_pc = "done" /\ f_mode = "multi-agent" /\ f_ret.kind = "returned"

\* the coordinator run completed
CoordinatorCompleted == f_engine.kind = "ok"

\* the report of the plan the coordinator run produced
ReportOfRun == _format_travel_plan(f_engine.value.output.fields)

\* C29: MultiAgentTravelAgent.run returns the message history of the run
\* only when both the coordinator run and the formatting of the report
\* succeeded. When the coordinator run completes and formatting the plan
\* raises, the caller receives the error string with the empty trace and the
\* history of the completed run is dropped. No outcome pairs an error string
\* with a non-empty trace.
C29_HistoryOnlyWithReport ==
    MultiAgentRunDone =>
        /\ f_ret.value[2] # <<>> =>
              /\ CoordinatorCompleted
              /\ ReportOfRun.kind = "ok"
              /\ f_ret.value[1] = ReportOfRun.value
              /\ Ok(f_ret.value[2]) = f_engine.value.all_messages_json
        /\ (CoordinatorCompleted /\ ReportOfRun.kind = "raise") =>
              /\ f_ret.value[1] = <<"Error in multi-agent travel planning: ",
                                    ReportOfRun.exc.msg>>
              /\ f_ret.value[2] = <<>>
        /\ IsErrorString(f_ret.value[1]) => f_ret.value[2] = <<>>

\* the coordinator run completed with a history that serializes, formatting
\* its plan raised, and run returned the error string with the empty trace
C29_Witness ==
    /\ MultiAgentRunDone
    /\ CoordinatorCompleted
    /\ f_engine.value.all_messages_json.kind = "ok"
    /\ f_engine.value.all_messages_json.value # <<>>
    /\ ReportOfRun.kind = "raise"
    /\ IsErrorString(f_ret.value[1])
    /\ f_ret.value[2] = <<>>

=============================================================================
